---- MODULE Spec2Model ----
(***************************************************************************)
(* A model of the security-dataset ingestion system:                       *)
(*   - DatabaseManager (src/src/database/db_manager.py): the three-table   *)
(*     SQLite store and its write operations;                              *)
(*   - SecurityDatasetBuilder.process_files (src/src/main.py): the sweep   *)
(*     that stamps and flags unprocessed files;                            *)
(*   - save_entries_to_db (src/tools/process_indexes.py): the serial       *)
(*     writer of the ingestion pipeline;                                   *)
(*   - IndexParser.parse_file (src/src/parsers/index_parser.py);           *)
(*   - CoverageAnalyzer (src/tools/analyze_coverage.py);                   *)
(*   - StatsAnalyzer.add_entry (src/src/utils/stats_analyzer.py);          *)
(*   - a whole run: run_processing.main and process_all_indexes            *)
(*     (src/tools/run_processing.py, src/tools/process_indexes.py);        *)
(*   - SecurityDatasetBuilder.process_index_files (src/src/main.py).       *)
(***************************************************************************)
EXTENDS Integers, Sequences, FiniteSets, TLC

VARIABLES
    client,      \* what is driven: "api" (direct store calls, process_files) | "pipeline" |
                 \* "parser" | "coverage" | "stats" | "run" | "build"
    db,          \* the tables as the connection sees them (uncommitted changes included)
    committed,   \* the tables as of the last commit (what a rollback or a crash restores)
    last,        \* the last store call: operation, key arguments, return value, raised
    firstId,     \* history: full_path -> id returned by the first successful add_file (0: none)
    lastContent, \* history: file_id -> <<content_data>> of the most recent add_content (<<>>: none)
    disk,        \* the full paths that exist on disk
    pfpc,        \* process_files: "idle" | "loop" | "file" | "stamped" | "done"
    pfFiles,     \* process_files: the batch returned by get_unprocessed_files
    pfi,         \* process_files: index of the current file of the batch
    pfStart,     \* history: the file rows when process_files was called ({}: not followed)
    batch,       \* pipeline: the parsed entries handed to save_entries_to_db, in order
    dry_run,     \* pipeline: IndexProcessor.dry_run
    ppc,         \* pipeline: "idle" | "file" | "annotation" | "content" | "dry" | "done" | "crashed"
    pei,         \* pipeline: index of the current entry of the batch
    pfile_id,    \* pipeline: the local file_id of save_entries_to_db
    processed,   \* pipeline: the local counter processed of save_entries_to_db
    stats,       \* pipeline: IndexProcessor.stats_analyzer (a StatsAnalyzer)
    runs,        \* pipeline: number of runs started
    crashAt,     \* history: the write before which the last interruption came ("none": none)
    writeRaised, \* history: some store write of some run raised
    content,     \* parser: the items of the index file, in order (lines and separators)
    source_path, \* parser: IndexParser.source_path, as its path segments (<<>>: None)
    errors,      \* parser: BaseParser.errors
    results,     \* parser: what the last parse_file returned
    stage,       \* parser: "file" (the file is being written) | "parsed" | "unreadable"
    all_files,      \* coverage: CoverageAnalyzer.all_files
    indexed_files,  \* coverage: CoverageAnalyzer.indexed_files
    cov_categories, \* coverage: CoverageAnalyzer.categories (a count per category)
    extensions,     \* coverage: CoverageAnalyzer.extensions
    directories,    \* coverage: CoverageAnalyzer.directories
    report,         \* coverage: what generate_report returned (<<>>: not called yet)
    cpc,            \* coverage: main is at "load" | "index" | "done" | "failed"
    nindex,         \* coverage: index files processed so far
    index_files,    \* run: the index files given to process_all_indexes, in order
    rpc,            \* run: "discovering" | "parsing" | "writing" | "reporting" | "done" | "aborted"
    bi,             \* run: position in index_files of the first file of the current batch
    total_processed,\* run: total_processed of process_all_indexes
    tasks,          \* run: the parse task of each file of the current batch: "submitted" | "done"
    handled         \* history: the entries save_entries_to_db has dealt with, and how

storeVars == <<db, committed, last, firstId, lastContent>>
sweepVars == <<disk, pfpc, pfFiles, pfi, pfStart>>
pipeVars == <<batch, dry_run, ppc, pei, pfile_id, processed, stats, runs, crashAt, writeRaised>>
parserVars == <<content, source_path, errors, results, stage>>
covVars == <<all_files, indexed_files, cov_categories, extensions, directories, report, cpc, nindex>>
runVars == <<index_files, rpc, bi, total_processed, tasks, handled>>
vars == <<client, storeVars, sweepVars, pipeVars, parserVars, covVars, runVars>>

----------------------------------------------------------------------------
(* Values *)

NULL == "NULL"

\* Index files given to the pipeline; both live in directory d1.
IndexPaths == {"d1/i1", "d1/i2"}
FileNames == {"a.txt", "b"}
Paths == {"d1/a.txt", "d1/b"}
FileIds == {1, 2}
Descriptions == {"x", "y"}

\* Highest content row id the model lets a direct add_content allocate.
MaxContentId == 2

\* batch_size of process_files as the model runs it (the code's default is 100).
BatchSize == 1

\* Longest batch of entries handed to save_entries_to_db.
MaxEntries == 2

\* Most runs of the pipeline over the same batch.
MaxRuns == 2

\* str(Path(index_path).parent / filename)
PathJoinParent(index_path, filename) ==
    IF filename = "a.txt" THEN "d1/a.txt" ELSE "d1/b"

\* Path(filename).suffix.lstrip('.')
SuffixNoDot(filename) == IF filename = "a.txt" THEN "txt" ELSE ""

\* Entry metadata as parse_file builds it (a dict).
Meta(tags) == [tags |-> tags, systems |-> <<>>, hashes |-> <<>>, author |-> NULL,
               category |-> "unknown"]
Metas == {Meta(<<>>), Meta(<<"t">>)}

\* json.dumps: the serialised form of a value is not the value.
json_dumps(v) == [json |-> v]

\* json.loads: the value a serialised form was made from.
json_loads(s) == s.json

\* Two file records per path, differing in every field but full_path.
FileData ==
    { [filename |-> "a", full_path |-> p, file_type |-> "txt", size |-> 0,
       modified_date |-> NULL, category |-> "exploit", processed |-> FALSE] : p \in Paths }
    \cup
    { [filename |-> "b", full_path |-> p, file_type |-> "bin", size |-> 7,
       modified_date |-> "t1", category |-> "tool", processed |-> TRUE] : p \in Paths }

AnnotationData ==
    [file_id : FileIds, annotation_date : {NULL}, description : Descriptions,
     source_index : {"d1/i1"}]

ContentData ==
    { [file_id |-> f, raw_text |-> NULL, cleaned_text |-> NULL, metadata |-> Meta(<<>>)]
      : f \in FileIds }
    \cup
    { [file_id |-> f, raw_text |-> "r", cleaned_text |-> "c", metadata |-> Meta(<<"t">>)]
      : f \in FileIds }

\* An entry as process_index_file returns it: the parser sets source_index to the
\* path of the index file.
Entry(index_path, filename, description, tags) ==
    [index_path |-> index_path, filename |-> filename, description |-> description,
     source_index |-> index_path, metadata |-> Meta(tags)]

\* The same file named twice by one index file with different descriptions and
\* metadata, another file of that index file, and the first file named by a
\* second index file.
Entries ==
    { Entry("d1/i1", "a.txt", "x", <<>>),
      Entry("d1/i1", "a.txt", "y", <<"t">>),
      Entry("d1/i1", "b", "x", <<>>),
      Entry("d1/i2", "a.txt", "y", <<"t">>) }

Batches == UNION { [1..n -> Entries] : n \in 0..MaxEntries }

\* os.stat of a file on disk.
StatSize(p) == IF p = "d1/a.txt" THEN 5 ELSE 6
StatMtime(p) == IF p = "d1/a.txt" THEN "mt1" ELSE "mt2"

----------------------------------------------------------------------------
(* SQLite *)

EmptyDb == [files |-> {}, annotations |-> {}, content |-> {}]

Max(S) == CHOOSE x \in S : \A y \in S : y <= x

\* INTEGER PRIMARY KEY without AUTOINCREMENT: the largest rowid in use plus one.
NewRowId(table) == IF table = {} THEN 1 ELSE Max({r.id : r \in table}) + 1

\* Mutation: the table lacks UNIQUE(full_path), so the insert always adds a row.
InsertFileNoUnique(d, file_data) ==
    LET id == NewRowId(d.files)
        row == [id |-> id,
                filename |-> file_data.filename,
                full_path |-> file_data.full_path,
                file_type |-> file_data.file_type,
                size |-> file_data.size,
                modified_date |-> file_data.modified_date,
                category |-> file_data.category,
                processed |-> file_data.processed]
    IN [db |-> [d EXCEPT !.files = @ \cup {row}], rowcount |-> 1, lastrowid |-> id]

\* Mutation: INSERT OR REPLACE instead of INSERT OR IGNORE.
InsertOrReplaceFile(d, file_data) ==
    LET id == NewRowId(d.files)
        row == [id |-> id,
                filename |-> file_data.filename,
                full_path |-> file_data.full_path,
                file_type |-> file_data.file_type,
                size |-> file_data.size,
                modified_date |-> file_data.modified_date,
                category |-> file_data.category,
                processed |-> file_data.processed]
        kept == { r \in d.files : r.full_path # file_data.full_path }
    IN [db |-> [d EXCEPT !.files = kept \cup {row}], rowcount |-> 1, lastrowid |-> id]

\* INSERT OR IGNORE INTO files ... with UNIQUE(full_path).
InsertOrIgnoreFile(d, file_data) ==
    IF \E r \in d.files : r.full_path = file_data.full_path
    THEN [db |-> d, rowcount |-> 0, lastrowid |-> 0]
    ELSE LET id == NewRowId(d.files)
             row == [id |-> id,
                     filename |-> file_data.filename,
                     full_path |-> file_data.full_path,
                     file_type |-> file_data.file_type,
                     size |-> file_data.size,
                     modified_date |-> file_data.modified_date,
                     category |-> file_data.category,
                     processed |-> file_data.processed]
         IN [db |-> [d EXCEPT !.files = @ \cup {row}], rowcount |-> 1, lastrowid |-> id]

\* DatabaseManager.add_file, the path on which nothing raises.
add_file(d, file_data) ==
    LET ins == InsertOrIgnoreFile(d, file_data)
    IN IF ins.rowcount = 0
       THEN [db |-> ins.db,
             ret |-> (CHOOSE r \in ins.db.files : r.full_path = file_data.full_path).id]
       ELSE [db |-> ins.db, ret |-> ins.lastrowid]

\* SELECT id FROM annotations WHERE file_id = ? AND source_index = ?
SelectAnnotation(d, annotation_data) ==
    { r \in d.annotations : /\ r.file_id = annotation_data.file_id
                            /\ r.source_index = annotation_data.source_index }

\* fetchone(): the first row of the result, in rowid order.
FetchOne(rows) == CHOOSE r \in rows : \A q \in rows : r.id <= q.id

\* Mutation: the lookup of an existing annotation is skipped.
add_annotation_no_lookup(d, annotation_data) ==
    LET id == NewRowId(d.annotations)
        row == [id |-> id,
                file_id |-> annotation_data.file_id,
                annotation_date |-> annotation_data.annotation_date,
                description |-> annotation_data.description,
                source_index |-> annotation_data.source_index]
    IN [db |-> [d EXCEPT !.annotations = @ \cup {row}], ret |-> id, commits |-> TRUE]

\* DatabaseManager.add_annotation, the path on which nothing raises.
\* commits: the early return of an existing row does not commit.
add_annotation(d, annotation_data) ==
    LET existing == SelectAnnotation(d, annotation_data)
    IN IF existing # {}
       THEN [db |-> d, ret |-> FetchOne(existing).id, commits |-> FALSE]
       ELSE LET id == NewRowId(d.annotations)
                row == [id |-> id,
                        file_id |-> annotation_data.file_id,
                        annotation_date |-> annotation_data.annotation_date,
                        description |-> annotation_data.description,
                        source_index |-> annotation_data.source_index]
            IN [db |-> [d EXCEPT !.annotations = @ \cup {row}], ret |-> id,
                commits |-> TRUE]

\* Mutation: INSERT OR IGNORE instead of INSERT OR REPLACE.
InsertOrIgnoreContent(d, row_data) ==
    IF \E r \in d.content : r.file_id = row_data.file_id
    THEN [db |-> d, lastrowid |-> 0]
    ELSE LET id == NewRowId(d.content)
             row == [id |-> id,
                     file_id |-> row_data.file_id,
                     raw_text |-> row_data.raw_text,
                     cleaned_text |-> row_data.cleaned_text,
                     metadata |-> row_data.metadata]
         IN [db |-> [d EXCEPT !.content = @ \cup {row}], lastrowid |-> id]

\* Mutation: the table lacks UNIQUE(file_id), so nothing is replaced.
InsertContentNoUnique(d, row_data) ==
    LET id == NewRowId(d.content)
        row == [id |-> id,
                file_id |-> row_data.file_id,
                raw_text |-> row_data.raw_text,
                cleaned_text |-> row_data.cleaned_text,
                metadata |-> row_data.metadata]
    IN [db |-> [d EXCEPT !.content = @ \cup {row}], lastrowid |-> id]

\* INSERT OR REPLACE INTO content ... with UNIQUE(file_id): the new rowid is
\* allocated before the conflicting row is deleted.
InsertOrReplaceContent(d, row_data) ==
    LET id == NewRowId(d.content)
        row == [id |-> id,
                file_id |-> row_data.file_id,
                raw_text |-> row_data.raw_text,
                cleaned_text |-> row_data.cleaned_text,
                metadata |-> row_data.metadata]
        kept == { r \in d.content : r.file_id # row_data.file_id }
    IN [db |-> [d EXCEPT !.content = kept \cup {row}], lastrowid |-> id]

\* DatabaseManager.add_content, the path on which nothing raises.
add_content(d, content_data) ==
    LET serialised == [content_data EXCEPT !.metadata = json_dumps(@)]
        ins == InsertOrReplaceContent(d, serialised)
    IN [db |-> ins.db, ret |-> ins.lastrowid]

\* Mutation: the UPDATE flips the flag instead of setting it.
mark_as_processed_toggle(d, file_id) ==
    [d EXCEPT !.files = { IF r.id = file_id THEN [r EXCEPT !.processed = ~@] ELSE r
                          : r \in @ }]

\* DatabaseManager.mark_as_processed, the path on which nothing raises.
mark_as_processed(d, file_id) ==
    [d EXCEPT !.files = { IF r.id = file_id THEN [r EXCEPT !.processed = TRUE] ELSE r
                          : r \in @ }]

\* The first n elements of a set of rows in rowid order, as a sequence.
RECURSIVE FirstRows(_, _)
FirstRows(rows, n) ==
    IF n = 0 \/ rows = {} THEN <<>>
    ELSE LET r == FetchOne(rows) IN <<r>> \o FirstRows(rows \ {r}, n - 1)

\* DatabaseManager.get_unprocessed_files
get_unprocessed_files(d, limit) ==
    FirstRows({ r \in d.files : r.processed = FALSE }, limit)

\* The raw UPDATE files SET size = ?, modified_date = ? WHERE id = ? of process_files.
UpdateStat(d, file_id, size, mtime) ==
    [d EXCEPT !.files = { IF r.id = file_id
                          THEN [r EXCEPT !.size = size, !.modified_date = mtime]
                          ELSE r : r \in @ }]

----------------------------------------------------------------------------
(* The record of the last store call *)

\* existed: the row the call is keyed on was in its table when the call began.
NoCall == [op |-> "none", path |-> "", filename |-> "", file_id |-> 0,
           source_index |-> "", ret |-> 0, raised |-> FALSE, existed |-> FALSE]

Call(op, path, filename, file_id, source_index, ret, raised, existed) ==
    [op |-> op, path |-> path, filename |-> filename, file_id |-> file_id,
     source_index |-> source_index, ret |-> ret, raised |-> raised, existed |-> existed]

WriteOps == {"add_file", "add_annotation", "add_content", "mark_as_processed"}

----------------------------------------------------------------------------
(* The store's write operations as one call each: the effect on the store,    *)
(* whoever the caller is                                                      *)

CallAddFile(file_data) ==
    LET res == add_file(db, file_data)
        p == file_data.full_path
    IN /\ db' = res.db
       /\ committed' = res.db
       /\ last' = Call("add_file", p, file_data.filename, 0, "", res.ret, FALSE,
                       \E r \in db.files : r.full_path = p)
       /\ firstId' = IF firstId[p] = 0 THEN [firstId EXCEPT ![p] = res.ret] ELSE firstId
       /\ UNCHANGED lastContent

CallAddAnnotation(annotation_data) ==
    LET res == add_annotation(db, annotation_data)
    IN /\ db' = res.db
       /\ committed' = IF res.commits THEN res.db ELSE committed
       /\ last' = Call("add_annotation", "", "", annotation_data.file_id,
                       annotation_data.source_index, res.ret, FALSE,
                       SelectAnnotation(db, annotation_data) # {})
       /\ UNCHANGED <<firstId, lastContent>>

CallAddContent(content_data) ==
    LET res == add_content(db, content_data)
    IN /\ db' = res.db
       /\ committed' = res.db
       /\ last' = Call("add_content", "", "", content_data.file_id, "", res.ret, FALSE,
                       \E r \in db.content : r.file_id = content_data.file_id)
       /\ lastContent' = [lastContent EXCEPT ![content_data.file_id] = <<content_data>>]
       /\ UNCHANGED firstId

CallMarkAsProcessed(file_id) ==
    /\ db' = mark_as_processed(db, file_id)
    /\ committed' = db'
    /\ last' = Call("mark_as_processed", "", "", file_id, "", 0, FALSE,
                    \E r \in db.files : r.id = file_id)
    /\ UNCHANGED <<firstId, lastContent>>

\* A write operation whose execute or commit raises: the except branch rolls the
\* connection back to the last commit and re-raises.
CallRaises(op, file_id) ==
    /\ db' = committed
    /\ last' = Call(op, "", "", file_id, "", 0, TRUE, FALSE)
    /\ UNCHANGED <<committed, firstId, lastContent>>

----------------------------------------------------------------------------
(* Direct calls of the store's write operations *)

Idle == client = "api" /\ pfpc \in {"idle", "done"}

AddFile(file_data) ==
    /\ Idle
    /\ CallAddFile(file_data)
    /\ UNCHANGED <<covVars, runVars, parserVars, client, sweepVars, pipeVars>>

AddAnnotation(annotation_data) ==
    /\ Idle
    /\ CallAddAnnotation(annotation_data)
    /\ UNCHANGED <<covVars, runVars, parserVars, client, sweepVars, pipeVars>>

AddContent(content_data) ==
    /\ Idle
    /\ NewRowId(db.content) <= MaxContentId
    /\ CallAddContent(content_data)
    /\ UNCHANGED <<covVars, runVars, parserVars, client, sweepVars, pipeVars>>

MarkAsProcessed(file_id) ==
    /\ Idle
    /\ CallMarkAsProcessed(file_id)
    /\ UNCHANGED <<covVars, runVars, parserVars, client, sweepVars, pipeVars>>

WriteRaises(op) ==
    /\ Idle
    /\ CallRaises(op, 0)
    /\ UNCHANGED <<covVars, runVars, parserVars, client, sweepVars, pipeVars>>

----------------------------------------------------------------------------
(* SecurityDatasetBuilder.process_files *)

\* files = get_unprocessed_files(batch_size); if not files: break
PFFetch ==
    /\ client = "api"
    /\ pfpc \in {"idle", "loop", "done"}
    /\ LET files == get_unprocessed_files(db, BatchSize)
       IN IF files = <<>>
          THEN /\ pfpc' = "done"
               /\ pfFiles' = <<>>
               /\ pfi' = 0
          ELSE /\ pfpc' = "file"
               /\ pfFiles' = files
               /\ pfi' = 1
    /\ UNCHANGED <<covVars, runVars, parserVars, client, storeVars, disk, pfStart, pipeVars>>

\* The for loop moves to the next file of the batch, or back to the while loop.
PFAdvance ==
    IF pfi < Len(pfFiles)
    THEN pfpc' = "file" /\ pfi' = pfi + 1 /\ pfFiles' = pfFiles
    ELSE pfpc' = "loop" /\ pfi' = 0 /\ pfFiles' = <<>>

\* if not file_path.exists(): continue
PFMissing ==
    /\ pfpc = "file"
    /\ pfFiles[pfi].full_path \notin disk
    /\ PFAdvance
    /\ UNCHANGED <<covVars, runVars, parserVars, client, storeVars, disk, pfStart, pipeVars>>

\* The raw UPDATE on the manager's cursor: executed, not committed.
PFStamp ==
    /\ pfpc = "file"
    /\ pfFiles[pfi].full_path \in disk
    /\ LET f == pfFiles[pfi]
       IN db' = UpdateStat(db, f.id, StatSize(f.full_path), StatMtime(f.full_path))
    /\ pfpc' = "stamped"
    /\ UNCHANGED <<covVars, runVars, parserVars, client, committed, last, firstId, lastContent, disk, pfFiles, pfi,
                   pfStart, pipeVars>>

\* self.db_manager.mark_as_processed(file_data["id"])
PFMark ==
    /\ pfpc = "stamped"
    /\ CallMarkAsProcessed(pfFiles[pfi].id)
    /\ PFAdvance
    /\ UNCHANGED <<covVars, runVars, parserVars, client, disk, pfStart, pipeVars>>

\* mark_as_processed raises: rollback, re-raise; process_files logs and continues.
PFMarkRaises ==
    /\ pfpc = "stamped"
    /\ CallRaises("mark_as_processed", pfFiles[pfi].id)
    /\ PFAdvance
    /\ UNCHANGED <<covVars, runVars, parserVars, client, disk, pfStart, pipeVars>>

----------------------------------------------------------------------------
(* save_entries_to_db, run by the pipeline over the same batch again and again *)

\* file_data of save_entries_to_db
PipeFileData(entry) ==
    [filename |-> entry.filename,
     full_path |-> PathJoinParent(entry.index_path, entry.filename),
     file_type |-> SuffixNoDot(entry.filename),
     size |-> 0,
     modified_date |-> NULL,
     category |-> entry.metadata.category,
     processed |-> FALSE]

\* annotation_data of save_entries_to_db
PipeAnnotationData(entry, file_id) ==
    [file_id |-> file_id,
     annotation_date |-> NULL,
     description |-> entry.description,
     source_index |-> entry.source_index]

\* content_data of save_entries_to_db
PipeContentData(entry, file_id) ==
    [file_id |-> file_id,
     raw_text |-> NULL,
     cleaned_text |-> NULL,
     metadata |-> json_dumps(entry.metadata)]

----------------------------------------------------------------------------
(* StatsAnalyzer (src/utils/stats_analyzer.py)                                *)

\* counter[key] += 1 on a Counter or a defaultdict(int)
Count(counter, key) == [counter EXCEPT ![key] = @ + 1]

\* Most add_entry calls on one StatsAnalyzer when it is driven alone.
MaxAddEntries == 4

StatCategoryKeys == {"unknown", "exploit", "tool"}
StatTagKeys == {"t", "x"}
StatSystemKeys == {"s"}
StatFileTypeKeys == {"txt", "no_extension"}
StatAuthorKeys == {"unknown", "n"}

\* StatsAnalyzer.__init__: every Counter is empty (a key not counted yet reads 0).
NewStatsAnalyzer ==
    [total_entries |-> 0,
     categories |-> [k \in StatCategoryKeys |-> 0],
     tags |-> [k \in StatTagKeys |-> 0],
     systems |-> [k \in StatSystemKeys |-> 0],
     file_types |-> [k \in StatFileTypeKeys |-> 0],
     authors |-> [k \in StatAuthorKeys |-> 0]]

\* value or 'unknown': None and the empty string are false.
OrUnknown(value) == IF value \in {NULL, ""} THEN "unknown" ELSE value

\* for tag in tags: if tag: self.tags[tag] += 1
RECURSIVE CountEach(_, _)
CountEach(counter, values) ==
    IF values = <<>> THEN counter
    ELSE IF Head(values) = "" THEN CountEach(counter, Tail(values))
    ELSE CountEach(Count(counter, Head(values)), Tail(values))

\* StatsAnalyzer.add_entry
add_entry(sa, entry) ==
    LET has_metadata == "metadata" \in DOMAIN entry
        has(key) == has_metadata /\ key \in DOMAIN entry.metadata
        file_type == SuffixNoDot(entry.filename)
    IN [total_entries |-> sa.total_entries + 1,
        categories |-> IF has("category")
                       THEN Count(sa.categories, OrUnknown(entry.metadata.category))
                       ELSE sa.categories,
        tags |-> IF has("tags") THEN CountEach(sa.tags, entry.metadata.tags) ELSE sa.tags,
        systems |-> IF has("systems") THEN CountEach(sa.systems, entry.metadata.systems)
                    ELSE sa.systems,
        file_types |-> IF "filename" \in DOMAIN entry
                       THEN Count(sa.file_types,
                                  IF file_type = "" THEN "no_extension" ELSE file_type)
                       ELSE sa.file_types,
        authors |-> IF has("author") THEN Count(sa.authors, OrUnknown(entry.metadata.author))
                    ELSE sa.authors]

\* Entries as parse_file returns them, given to add_entry: one list names a tag
\* and a system twice ('tags | t, t').
StatEntries ==
    { [filename |-> "a.txt", description |-> "x", source_index |-> "d1/i1",
       metadata |-> [tags |-> <<"t">>, systems |-> <<>>, hashes |-> <<>>, author |-> "n",
                     category |-> "exploit"]],
      [filename |-> "b", description |-> "y", source_index |-> "d1/i1",
       metadata |-> [tags |-> <<"t", "x">>, systems |-> <<"s">>, hashes |-> <<>>,
                     author |-> NULL, category |-> "unknown"]],
      [filename |-> "b", description |-> "x", source_index |-> "d1/i2",
       metadata |-> [tags |-> <<"t", "t">>, systems |-> <<"s", "s">>, hashes |-> <<>>,
                     author |-> NULL, category |-> "tool"]],
      [filename |-> "a.txt", description |-> "y", source_index |-> "d1/i2",
       metadata |-> [tags |-> <<>>, systems |-> <<>>, hashes |-> <<>>, author |-> "n",
                     category |-> "unknown"]],
      [filename |-> "b", description |-> "x", source_index |-> "d1/i1",
       metadata |-> [tags |-> <<"x">>, systems |-> <<>>, hashes |-> <<>>, author |-> NULL,
                     category |-> "exploit"]] }

\* stats_analyzer.add_entry(entry) on a StatsAnalyzer driven alone.
StatsAddEntry(entry) ==
    /\ client = "stats"
    /\ stats.total_entries < MaxAddEntries
    /\ stats' = add_entry(stats, entry)
    /\ UNCHANGED <<client, storeVars, sweepVars, parserVars, covVars, runVars, batch, dry_run,
                   ppc, pei, pfile_id, processed, runs, crashAt, writeRaised>>

----------------------------------------------------------------------------
(* save_entries_to_db, run after run                                          *)

\* What became of an entry in save_entries_to_db: "stats" (given to the
\* StatsAnalyzer), "saved" (its three writes done), "raised" (a write raised).
Handled(entry, outcome) == [entry |-> entry, outcome |-> outcome]

\* A run starts: a new process, a new connection, a new StatsAnalyzer.
PipeRun ==
    /\ client = "pipeline"
    /\ ppc \in {"idle", "done", "crashed"}
    /\ runs < MaxRuns
    /\ runs' = runs + 1
    /\ processed' = 0
    /\ stats' = NewStatsAnalyzer
    /\ pfile_id' = 0
    /\ IF batch = <<>>
       THEN ppc' = "done" /\ pei' = 0
       ELSE ppc' = (IF dry_run THEN "dry" ELSE "file") /\ pei' = 1
    /\ handled' = <<>>
    /\ UNCHANGED <<covVars, index_files, rpc, bi, total_processed, tasks, parserVars, client, storeVars, sweepVars, batch, dry_run, crashAt, writeRaised>>

PipeAdvanceToStore ==
    IF pei < Len(batch)
    THEN ppc' = "file" /\ pei' = pei + 1
    ELSE ppc' = "done" /\ pei' = pei

\* The for loop over the entries moves on.
PipeAdvance ==
    IF pei < Len(batch)
    THEN ppc' = (IF dry_run THEN "dry" ELSE "file") /\ pei' = pei + 1
    ELSE ppc' = "done" /\ pei' = pei

\* if self.dry_run: self.stats_analyzer.add_entry(entry); processed += 1; continue
PipeDryEntry ==
    /\ ppc = "dry"
    /\ stats' = add_entry(stats, batch[pei])
    /\ processed' = processed + 1
    /\ PipeAdvance
    /\ handled' = Append(handled, Handled(batch[pei], "stats"))
    /\ UNCHANGED <<covVars, index_files, rpc, bi, total_processed, tasks, parserVars, client, storeVars, sweepVars, batch, dry_run, pfile_id, runs,
                   crashAt, writeRaised>>

\* file_id = self.db_manager.add_file(file_data)
PipeAddFile ==
    /\ ppc = "file"
    /\ CallAddFile(PipeFileData(batch[pei]))
    /\ pfile_id' = last'.ret
    /\ ppc' = "annotation"
    /\ UNCHANGED <<covVars, runVars, parserVars, client, sweepVars, batch, dry_run, pei, processed, stats, runs,
                   crashAt, writeRaised>>

\* self.db_manager.add_annotation(annotation_data)
PipeAddAnnotation ==
    /\ ppc = "annotation"
    /\ CallAddAnnotation(PipeAnnotationData(batch[pei], pfile_id))
    /\ ppc' = "content"
    /\ UNCHANGED <<covVars, runVars, parserVars, client, sweepVars, batch, dry_run, pei, pfile_id, processed, stats,
                   runs, crashAt, writeRaised>>

\* self.db_manager.add_content(content_data); processed += 1
PipeAddContent ==
    /\ ppc = "content"
    /\ CallAddContent(PipeContentData(batch[pei], pfile_id))
    /\ processed' = processed + 1
    /\ PipeAdvance
    /\ handled' = Append(handled, Handled(batch[pei], "saved"))
    /\ UNCHANGED <<covVars, index_files, rpc, bi, total_processed, tasks, parserVars, client, sweepVars, batch, dry_run, pfile_id, stats, runs,
                   crashAt, writeRaised>>

PipeWriteRaisesEndsBatch ==
    /\ ppc \in {"file", "annotation", "content"}
    /\ CallRaises(CASE ppc = "file" -> "add_file"
                    [] ppc = "annotation" -> "add_annotation"
                    [] OTHER -> "add_content", 0)
    /\ writeRaised' = TRUE
    /\ ppc' = "done" /\ pei' = pei
    /\ handled' = Append(handled, Handled(batch[pei], "raised"))
    /\ UNCHANGED <<covVars, index_files, rpc, bi, total_processed, tasks, parserVars, client, sweepVars, batch, dry_run, pfile_id, processed, stats, runs,
                   crashAt>>

\* The pending write of the entry raises: except Exception ... continue
PipeWriteRaises ==
    /\ ppc \in {"file", "annotation", "content"}
    /\ CallRaises(CASE ppc = "file" -> "add_file"
                    [] ppc = "annotation" -> "add_annotation"
                    [] OTHER -> "add_content", 0)
    /\ writeRaised' = TRUE
    /\ PipeAdvance
    /\ handled' = Append(handled, Handled(batch[pei], "raised"))
    /\ UNCHANGED <<covVars, index_files, rpc, bi, total_processed, tasks, parserVars, client, sweepVars, batch, dry_run, pfile_id, processed, stats, runs,
                   crashAt>>

\* The run is interrupted between two store writes: what was not committed is lost.
PipeCrash ==
    /\ ppc \in {"file", "annotation", "content"}
    /\ ppc' = "crashed"
    /\ db' = committed
    /\ crashAt' = ppc
    /\ UNCHANGED <<covVars, runVars, parserVars, client, committed, last, firstId, lastContent, sweepVars, batch,
                   dry_run, pei, pfile_id, processed, stats, runs, writeRaised>>

----------------------------------------------------------------------------
(* A run of the pipeline: run_processing.main finds the index files, and      *)
(* process_all_indexes parses and saves them batch after batch                *)

\* batch_size of process_all_indexes as the model runs it (the code's value is 10).
IndexBatchSize == 2

\* Most index files find_index_files returns.
MaxIndexFilesFound == 3

\* The path of the i-th index file found.
IndexPath(i) == CASE i = 1 -> "d1/i1" [] i = 2 -> "d1/i2" [] OTHER -> "d1/i3"

\* What parser.parse_file may hand to process_index_file for the index file at
\* path: any list of dicts.  Some dicts have an empty or missing required field
\* or no metadata; the empty list is what an unreadable file parses to.
ParsedLists(path) ==
    { <<Entry(path, "a.txt", "x", <<>>), Entry(path, "b", "x", <<>>)>>,
      <<[index_path |-> path, filename |-> "", description |-> "x", source_index |-> path,
         metadata |-> Meta(<<>>)],
        Entry(path, "a.txt", "y", <<"t">>),
        [index_path |-> path, filename |-> "b", description |-> "x", source_index |-> path]>>,
      <<>>,
      <<[index_path |-> path, filename |-> "b", source_index |-> path, metadata |-> Meta(<<>>)],
        [index_path |-> path, filename |-> "b", description |-> "y", source_index |-> "",
         metadata |-> Meta(<<>>)]>> }

\* The index files of a run, in the order found, each with what it parses to.
IndexFileLists ==
    UNION { { files \in [1..n -> [index_path : {IndexPath(i) : i \in 1..n},
                                   parsed : UNION {ParsedLists(IndexPath(i)) : i \in 1..n}]] :
                \A i \in 1..n : /\ files[i].index_path = IndexPath(i)
                                /\ files[i].parsed \in ParsedLists(IndexPath(i)) }
            : n \in 0..MaxIndexFilesFound }

validate_entry_present(entry) ==
    /\ \A field \in {"filename", "description", "source_index"} : field \in DOMAIN entry
    /\ "metadata" \in DOMAIN entry

\* validate_entry(entry)
validate_entry(entry) ==
    /\ \A field \in {"filename", "description", "source_index"} :
          field \in DOMAIN entry /\ entry[field] \notin {"", NULL}
    /\ "metadata" \in DOMAIN entry

\* process_index_file(index_path): the entries of the file that pass validate_entry
process_index_file(file) ==
    [index_path |-> file.index_path, entries |-> SelectSeq(file.parsed, validate_entry)]

\* for index_path, entries in entries_batch: for entry in entries
RECURSIVE EntriesOf(_)
EntriesOf(entries_batch) ==
    IF entries_batch = <<>> THEN <<>>
    ELSE Head(entries_batch).entries \o EntriesOf(Tail(entries_batch))

\* index_files[i:i + batch_size], i counted from 1
FileBatch(i) ==
    SubSeq(index_files, i,
           IF i + IndexBatchSize - 1 < Len(index_files) THEN i + IndexBatchSize - 1
           ELSE Len(index_files))

\* futures = [executor.submit(process_index_file, f) for f in batch], batch the
\* slice of index_files that starts at position i
Submitted(i) == [k \in 1..Len(FileBatch(i)) |-> "submitted"]

FirstTaskDone == tasks = <<>> \/ tasks[1] = "done"

\* results = [future.result() for future in futures] returns: every task of the
\* batch has completed
AllTasksDone == \A k \in 1..Len(tasks) : tasks[k] = "done"

\* run_processing.main: no index file is found, sys.exit(1).
RunNoIndexFiles ==
    /\ client = "run"
    /\ rpc = "discovering"
    /\ index_files = <<>>
    /\ rpc' = "aborted"
    /\ UNCHANGED <<client, storeVars, sweepVars, pipeVars, parserVars, covVars, index_files, bi,
                   total_processed, tasks, handled>>

\* run_processing.main: not a dry run and the user does not confirm, sys.exit(0).
RunDeclined ==
    /\ client = "run"
    /\ rpc = "discovering"
    /\ index_files # <<>>
    /\ ~dry_run
    /\ rpc' = "aborted"
    /\ UNCHANGED <<client, storeVars, sweepVars, pipeVars, parserVars, covVars, index_files, bi,
                   total_processed, tasks, handled>>

\* process_all_indexes starts: total_processed = 0, and the parse tasks of the
\* first batch are submitted.
RunStart ==
    /\ client = "run"
    /\ rpc = "discovering"
    /\ index_files # <<>>
    /\ rpc' = "parsing"
    /\ bi' = 1
    /\ total_processed' = 0
    /\ tasks' = Submitted(1)
    /\ UNCHANGED <<client, storeVars, sweepVars, pipeVars, parserVars, covVars, index_files,
                   handled>>

RunTaskDoneCounts(k) ==
    /\ client = "run"
    /\ rpc \in {"parsing", "writing", "reporting"}
    /\ k \in 1..Len(tasks)
    /\ tasks[k] = "submitted"
    /\ tasks' = [tasks EXCEPT ![k] = "done"]
    /\ stats' = [stats EXCEPT !.total_entries = @ + 1]
    /\ UNCHANGED <<client, storeVars, sweepVars, parserVars, covVars, index_files, rpc, bi,
                   total_processed, handled, batch, dry_run, ppc, pei, pfile_id, processed, runs,
                   crashAt, writeRaised>>

\* A worker of the pool runs process_index_file for the k-th file of the batch
\* to its end: it parses and validates, and its result waits in the future.
RunTaskDone(k) ==
    /\ client = "run"
    /\ rpc \in {"parsing", "writing", "reporting"}
    /\ k \in 1..Len(tasks)
    /\ tasks[k] = "submitted"
    /\ tasks' = [tasks EXCEPT ![k] = "done"]
    /\ UNCHANGED <<client, storeVars, sweepVars, pipeVars, parserVars, covVars, index_files, rpc,
                   bi, total_processed, handled>>

\* results = [future.result() ...] of the batch, and save_entries_to_db(results)
\* starts: processed = 0, the first entry is next.
RunParseBatch ==
    /\ rpc = "parsing"
    /\ AllTasksDone
    /\ LET entries_batch == [k \in 1..Len(FileBatch(bi)) |-> process_index_file(FileBatch(bi)[k])]
       IN  /\ batch' = EntriesOf(entries_batch)
           /\ IF batch' = <<>>
              THEN ppc' = "done" /\ pei' = 0
              ELSE ppc' = (IF dry_run THEN "dry" ELSE "file") /\ pei' = 1
    /\ processed' = 0
    /\ rpc' = "writing"
    /\ UNCHANGED <<client, storeVars, sweepVars, parserVars, covVars, index_files, bi,
                   total_processed, tasks, handled, dry_run, pfile_id, stats, runs, crashAt,
                   writeRaised>>

RunBatchDoneNoReport ==
    /\ rpc = "writing"
    /\ ppc = "done"
    /\ total_processed' = total_processed + processed
    /\ IF bi + IndexBatchSize <= Len(index_files)
       THEN rpc' = "parsing" /\ bi' = bi + IndexBatchSize /\ tasks' = Submitted(bi')
       ELSE rpc' = "done" /\ bi' = bi /\ tasks' = tasks
    /\ UNCHANGED <<client, storeVars, sweepVars, pipeVars, parserVars, covVars, index_files,
                   handled>>

\* save_entries_to_db returns: total_processed += processed, and the for loop
\* over the batches submits the tasks of the next batch or ends.
RunBatchDone ==
    /\ rpc = "writing"
    /\ ppc = "done"
    /\ total_processed' = total_processed + processed
    /\ IF bi + IndexBatchSize <= Len(index_files)
       THEN rpc' = "parsing" /\ bi' = bi + IndexBatchSize /\ tasks' = Submitted(bi')
       ELSE rpc' = "reporting" /\ bi' = bi /\ tasks' = tasks
    /\ UNCHANGED <<client, storeVars, sweepVars, pipeVars, parserVars, covVars, index_files,
                   handled>>

\* The total is logged, a dry run saves and prints its report, and the run ends.
RunReport ==
    /\ rpc = "reporting"
    /\ rpc' = "done"
    /\ UNCHANGED <<client, storeVars, sweepVars, pipeVars, parserVars, covVars, index_files, bi,
                   total_processed, tasks, handled>>

\* An error nothing handles (a broken worker pool, an interrupt, a report that
\* cannot be saved): process_all_indexes re-raises and the process exits; what
\* the store had not committed is lost.
RunAbort ==
    /\ client = "run"
    /\ rpc \in {"discovering", "parsing", "writing", "reporting"}
    /\ rpc' = "aborted"
    /\ db' = committed
    /\ ppc' = (IF ppc \in {"dry", "file", "annotation", "content"} THEN "crashed" ELSE ppc)
    /\ UNCHANGED <<client, committed, last, firstId, lastContent, sweepVars, parserVars, covVars,
                   index_files, bi, total_processed, tasks, handled, batch, dry_run, pei,
                   pfile_id, processed, stats, runs, crashAt, writeRaised>>

----------------------------------------------------------------------------
(* IndexParser.parse_file                                                     *)
(* Text is a sequence of tokens: a token is one character or one of the       *)
(* markers of the grammar taken whole ("File Name:", "tags |", ...).  The     *)
(* content of a file is the sequence of its lines, a line holding "///" alone *)
(* being the block separator.                                                 *)

WS == {" ", "\t"}

SEP == <<"///">>

\* Most items (lines and separators) of an index file.
MaxItems == 4

\* The lines an index file is written from.
Lines ==
    { <<"File Name:", " ", "a.txt">>,
      <<"File Name:", "b">>,
      <<"File Name:", " ", ":">>,
      <<"File Name:">>,
      <<"Description:">>,
      <<"Description:", " ", "w">>,
      <<" ", "w", " ", " ", "v", "\t">>,
      <<"u">>,
      <<"tags |", " ", "x", ",", ",", " ", "y", " ">>,
      <<"systems |", "s">>,
      <<"MD5", " ", "|", " ", "h">>,
      <<"Authored by", " ", "n">>,
      <<" ">> }

Items == Lines \cup {SEP}

\* The index files parse_file is called for, as path segments.
SourcePaths ==
    { <<"util", "Doc", "index_.txt">>, <<"d1", "index_.txt">> }

\* str.lstrip, str.rstrip, str.strip
RECURSIVE lstrip(_)
lstrip(s) == IF s # <<>> /\ Head(s) \in WS THEN lstrip(Tail(s)) ELSE s

RECURSIVE rstrip(_)
rstrip(s) == IF s # <<>> /\ s[Len(s)] \in WS THEN rstrip(SubSeq(s, 1, Len(s) - 1)) ELSE s

strip(s) == rstrip(lstrip(s))

\* content.split('///'): the blocks, each the sequence of its lines.
RECURSIVE SplitBlocks(_, _)
SplitBlocks(items, cur) ==
    IF items = <<>> THEN <<cur>>
    ELSE IF Head(items) = SEP THEN <<cur>> \o SplitBlocks(Tail(items), <<>>)
    ELSE SplitBlocks(Tail(items), Append(cur, Head(items)))

\* not entry_text.strip()
BlankBlock(block) == \A i \in 1..Len(block) : strip(block[i]) = <<>>

\* str.split(sep) on a token sequence; the markers "tags |" and "systems |" end in
\* the character '|'.
RECURSIVE SplitOn(_, _, _)
SplitOn(s, sep, cur) ==
    IF s = <<>> THEN <<cur>>
    ELSE IF Head(s) = sep THEN <<cur>> \o SplitOn(Tail(s), sep, <<>>)
    ELSE IF sep = "|" /\ Head(s) \in {"tags |", "systems |"}
         THEN <<Append(cur, Head(s))>> \o SplitOn(Tail(s), sep, <<>>)
    ELSE SplitOn(Tail(s), sep, Append(cur, Head(s)))

\* Mutation: empty values are kept.
RECURSIVE StripKeepEmpty(_)
StripKeepEmpty(parts) ==
    IF parts = <<>> THEN <<>> ELSE <<strip(Head(parts))>> \o StripKeepEmpty(Tail(parts))

\* [x.strip() for x in text.split(',') if x.strip()]
RECURSIVE StripDropEmpty(_)
StripDropEmpty(parts) ==
    IF parts = <<>> THEN <<>>
    ELSE IF strip(Head(parts)) = <<>> THEN StripDropEmpty(Tail(parts))
    ELSE <<strip(Head(parts))>> \o StripDropEmpty(Tail(parts))

CommaList(text) == StripDropEmpty(SplitOn(text, ",", <<>>))

\* re.match(r'File Name:\s*(.+)', line)
FileNameMatch(line) == Head(line) = "File Name:" /\ lstrip(Tail(line)) # <<>>
FileNameGroup(line) == lstrip(Tail(line))

\* re.match(r'(MD5|SHA-256)\s*\|\s*(.+)', line)
HashMatch(line) ==
    /\ Head(line) \in {"MD5", "SHA-256"}
    /\ LET r == lstrip(Tail(line))
       IN r # <<>> /\ Head(r) = "|" /\ lstrip(Tail(r)) # <<>>
HashGroup(line) == lstrip(Tail(lstrip(Tail(line))))

\* re.match(r'Authored by\s+(.+)', line)
AuthorMatch(line) ==
    /\ Head(line) = "Authored by"
    /\ Tail(line) # <<>> /\ Head(Tail(line)) \in WS
    /\ lstrip(Tail(line)) # <<>>
AuthorGroup(line) == lstrip(Tail(line))

\* ' '.join(lines)
RECURSIVE JoinSpace(_)
JoinSpace(lines) ==
    IF lines = <<>> THEN <<>>
    ELSE IF Len(lines) = 1 THEN lines[1]
    ELSE lines[1] \o <<" ">> \o JoinSpace(Tail(lines))

NoDescription == <<"No description available">>

\* IndexParser._determine_category on the segments of source_path
Categories ==
    << <<"exploit", "exploits">>, <<"shellcode", "shellcodes">>, <<"tool", "util">>,
       <<"doc", "Doc">>, <<"systemerror", "systemerror">> >>

\* Mutation: the path segments are scanned from the last one.
RECURSIVE determine_category_last(_)
determine_category_last(parts) ==
    IF parts = <<>> THEN "unknown"
    ELSE LET hits == { k \in 1..Len(Categories) : Categories[k][2] = parts[Len(parts)] }
         IN IF hits # {}
            THEN Categories[CHOOSE k \in hits : \A j \in hits : k <= j][1]
            ELSE determine_category_last(SubSeq(parts, 1, Len(parts) - 1))

RECURSIVE determine_category(_)
determine_category(parts) ==
    IF parts = <<>> THEN "unknown"
    ELSE LET hits == { k \in 1..Len(Categories) : Categories[k][2] = Head(parts) }
         IN IF hits # {}
            THEN Categories[CHOOSE k \in hits : \A j \in hits : k <= j][1]
            ELSE determine_category(Tail(parts))

\* current_entry at the start of a block; filename is <<>> while the key is absent.
NewEntry(path) ==
    [filename |-> <<>>,
     description |-> <<>>,
     source_index |-> path,
     metadata |-> [tags |-> <<>>, systems |-> <<>>, hashes |-> {}, author |-> <<>>,
                   category |-> determine_category(path)]]

\* Mutation: the placeholder ":" is taken as a filename.
UsableFileNameAny(filename) == filename # <<>>

\* if filename and filename != ':'
UsableFileName(filename) == filename # <<>> /\ filename # <<":">>

\* One line of a block: the body of the for loop over lines.
\* st: [entry, in_description, exc]; exc is set when the line makes the code raise.
ParseLine(st, raw) ==
    LET line == strip(raw)
        e == st.entry
    IN IF st.exc \/ line = <<>> THEN st
       ELSE IF FileNameMatch(line)
       THEN LET filename == strip(FileNameGroup(line))
            IN IF UsableFileName(filename)
               THEN [st EXCEPT !.entry.filename = <<filename>>]
               ELSE st
       ELSE IF line = <<"Description:">>
       THEN [st EXCEPT !.in_description = TRUE]
       ELSE IF Head(line) = "tags |"
       THEN LET parts == SplitOn(line, "|", <<>>)
            IN IF Len(parts) < 2
               THEN [st EXCEPT !.in_description = FALSE, !.exc = TRUE]
               ELSE [st EXCEPT !.in_description = FALSE,
                               !.entry.metadata.tags = CommaList(strip(parts[2]))]
       ELSE IF Head(line) = "systems |"
       THEN LET parts == SplitOn(line, "|", <<>>)
            IN IF Len(parts) < 2
               THEN [st EXCEPT !.in_description = FALSE, !.exc = TRUE]
               ELSE [st EXCEPT !.in_description = FALSE,
                               !.entry.metadata.systems = CommaList(strip(parts[2]))]
       ELSE IF HashMatch(line)
       THEN [st EXCEPT !.in_description = FALSE,
                       !.entry.metadata.hashes =
                           { h \in @ : h[1] # Head(line) }
                           \cup { <<Head(line), strip(HashGroup(line))>> }]
       ELSE IF AuthorMatch(line)
       THEN [st EXCEPT !.in_description = FALSE,
                       !.entry.metadata.author = <<strip(AuthorGroup(line))>>]
       ELSE IF st.in_description
       THEN [st EXCEPT !.entry.description = Append(@, line)]
       ELSE st

RECURSIVE ParseLines(_, _)
ParseLines(st, lines) ==
    IF lines = <<>> THEN st ELSE ParseLines(ParseLine(st, Head(lines)), Tail(lines))

\* Mutation: an empty description is left empty.
FinishEntryNoPlaceholder(e) == [e EXCEPT !.description = strip(JoinSpace(e.description))]

\* The entry of a block once its lines are read: the description is joined and trimmed.
FinishEntry(e) ==
    LET d == strip(JoinSpace(e.description))
    IN [e EXCEPT !.description = IF d = <<>> THEN NoDescription ELSE d]

SkippedError(path) == [kind |-> "skipped", file |-> path]
ReadError(path) == [kind |-> "read", file |-> path]

\* Mutation: a block without a filename ends the parse.
ParseBlockStopOnError(acc, block, path) ==
    IF acc.exc \/ BlankBlock(block) THEN acc
    ELSE LET st == ParseLines([entry |-> NewEntry(path),
                               in_description |-> acc.in_description,
                               exc |-> FALSE], block)
             e == FinishEntry(st.entry)
         IN IF st.exc
            THEN [acc EXCEPT !.exc = TRUE]
            ELSE IF e.filename # <<>>
            THEN [acc EXCEPT !.results = Append(@, e), !.in_description = st.in_description]
            ELSE [acc EXCEPT !.errors = Append(@, SkippedError(path)),
                             !.in_description = st.in_description, !.exc = TRUE]

\* One block: the body of the for loop over entries.
\* acc: [results, errors, in_description, exc]; in_description is set once per file
\* (line 28) and lives on from block to block.
ParseBlock(acc, block, path) ==
    IF acc.exc \/ BlankBlock(block) THEN acc
    ELSE LET st == ParseLines([entry |-> NewEntry(path),
                               in_description |-> acc.in_description,
                               exc |-> FALSE], block)
             e == FinishEntry(st.entry)
         IN IF st.exc
            THEN [acc EXCEPT !.exc = TRUE]
            ELSE IF e.filename # <<>>
            THEN [acc EXCEPT !.results = Append(@, e), !.in_description = st.in_description]
            ELSE [acc EXCEPT !.errors = Append(@, SkippedError(path)),
                             !.in_description = st.in_description]

RECURSIVE ParseBlocks(_, _, _)
ParseBlocks(acc, blocks, path) ==
    IF blocks = <<>> THEN acc
    ELSE ParseBlocks(ParseBlock(acc, Head(blocks), path), Tail(blocks), path)

\* parse_file: what it returns and what it appends to self.errors. readable: the
\* file opens and decodes. Whatever raises inside the try is caught: the errors
\* appended so far stay, one read error is added, and [] is returned.
parse_file(path, readable, text) ==
    IF ~readable
    THEN [results |-> <<>>, new_errors |-> <<ReadError(path)>>]
    ELSE LET acc == ParseBlocks([results |-> <<>>, errors |-> <<>>,
                                 in_description |-> FALSE, exc |-> FALSE],
                                SplitBlocks(text, <<>>), path)
         IN IF acc.exc
            THEN [results |-> <<>>, new_errors |-> Append(acc.errors, ReadError(path))]
            ELSE [results |-> acc.results, new_errors |-> acc.errors]

\* The index file is written, one line or separator at a time.
WriteItem(item) ==
    /\ client = "parser"
    /\ stage = "file"
    /\ Len(content) < MaxItems
    /\ content' = Append(content, item)
    /\ UNCHANGED <<covVars, runVars, client, storeVars, sweepVars, pipeVars, source_path, errors, results, stage>>

\* parser.parse_file(file_path) on the file as written.
ParseFile(path) ==
    /\ client = "parser"
    /\ stage = "file"
    /\ LET r == parse_file(path, TRUE, content)
       IN /\ results' = r.results
          /\ errors' = errors \o r.new_errors
    /\ source_path' = path
    /\ stage' = "parsed"
    /\ UNCHANGED <<covVars, runVars, client, storeVars, sweepVars, pipeVars, content>>

\* parser.parse_file(file_path) on a file that cannot be opened or decoded.
ParseUnreadableFile(path) ==
    /\ client = "parser"
    /\ stage = "file"
    /\ content = <<>>
    /\ LET r == parse_file(path, FALSE, content)
       IN /\ results' = r.results
          /\ errors' = errors \o r.new_errors
    /\ source_path' = path
    /\ stage' = "unreadable"
    /\ UNCHANGED <<covVars, runVars, client, storeVars, sweepVars, pipeVars, content>>

----------------------------------------------------------------------------
(* Floating-point arithmetic of generate_report: Python floats are IEEE 754   *)
(* doubles, kept here bit for bit.                                            *)

\* Bits of the significand of a double.
MantissaBits == 53

\* A double above zero is [m, e]: m the 53 bits of the significand, first bit 1,
\* and the value is m * 2^e. Zero is the empty significand.
Zero == [m |-> <<>>, e |-> 0]

\* The natural number v < 2^w as w bits, and the number a bit sequence stands for.
BitsOf(v, w) == [i \in 1..w |-> (v \div (2 ^ (w - i))) % 2]

RECURSIVE ValueOf(_)
ValueOf(bits) ==
    IF bits = <<>> THEN 0 ELSE 2 * ValueOf(SubSeq(bits, 1, Len(bits) - 1)) + bits[Len(bits)]

\* m + 1 on a bit sequence; one bit longer when every bit is 1.
IncBits(m) ==
    LET zeros == { i \in 1..Len(m) : m[i] = 0 }
    IN IF zeros = {}
       THEN <<1>> \o [i \in 1..Len(m) |-> 0]
       ELSE LET z == CHOOSE i \in zeros : \A j \in zeros : j <= i
            IN [i \in 1..Len(m) |-> IF i < z THEN m[i] ELSE IF i = z THEN 1 ELSE 0]

\* Round to nearest, ties to even: bits is the significand cut to its length,
\* half says the cut part is half a unit of the last bit or more, more that it
\* is more than half.
RoundNearestEven(bits, e, half, more) ==
    LET up == half /\ (more \/ bits[Len(bits)] = 1)
        inc == IncBits(bits)
    IN IF ~up THEN [m |-> bits, e |-> e]
       ELSE IF Len(inc) > Len(bits) THEN [m |-> SubSeq(inc, 1, Len(bits)), e |-> e + 1]
       ELSE [m |-> inc, e |-> e]

\* The next 4 * n bits of r / den after bits, for 0 <= r < den, and the remainder left.
RECURSIVE QuotientBits(_, _, _, _)
QuotientBits(r, den, n, bits) ==
    IF n = 0 THEN [bits |-> bits, r |-> r]
    ELSE QuotientBits((16 * r) % den, den, n - 1, bits \o BitsOf((16 * r) \div den, 4))

\* The pair scaled by powers of two to 1 <= num / den < 2; k is the power taken out.
RECURSIVE Normalise(_, _, _)
Normalise(num, den, k) ==
    IF num < den THEN Normalise(2 * num, den, k - 1)
    ELSE IF num >= 2 * den THEN Normalise(num, 2 * den, k + 1)
    ELSE [num |-> num, den |-> den, k |-> k]

\* a / b for ints a >= 0, b > 0: Python's true division, correctly rounded.
TrueDiv(a, b) ==
    IF a = 0 THEN Zero
    ELSE LET n == Normalise(a, b, 0)
             q == QuotientBits(n.num - n.den, n.den, (MantissaBits - 1) \div 4, <<1>>)
         IN RoundNearestEven(q.bits, n.k - (MantissaBits - 1), 2 * q.r >= n.den, 2 * q.r > n.den)

\* The bits of m * n + carry, m a bit sequence, n a natural number, eight bits at a time.
RECURSIVE MulBits(_, _, _)
MulBits(m, n, carry) ==
    IF m = <<>> THEN (IF carry = 0 THEN <<>> ELSE BitsOf(carry, CHOOSE w \in 1..16 : 2 ^ (w - 1) <= carry /\ carry < 2 ^ w))
    ELSE LET w == IF Len(m) < 8 THEN Len(m) ELSE 8
             v == ValueOf(SubSeq(m, Len(m) - w + 1, Len(m))) * n + carry
         IN MulBits(SubSeq(m, 1, Len(m) - w), n, v \div (2 ^ w)) \o BitsOf(v % (2 ^ w), w)

\* x * n for a double x and an int n > 0: float multiplication, correctly rounded.
MulInt(x, n) ==
    IF x.m = <<>> THEN Zero
    ELSE LET p == MulBits(x.m, n, 0)
             cut == Len(p) - MantissaBits
         IN RoundNearestEven(SubSeq(p, 1, MantissaBits), x.e + cut,
                             cut > 0 /\ p[MantissaBits + 1] = 1,
                             \E i \in (MantissaBits + 2)..Len(p) : p[i] = 1)

----------------------------------------------------------------------------
(* CoverageAnalyzer (tools/analyze_coverage.py)                               *)

\* Most lines of the manifest, most lines of an index file the analyzer reads,
\* most index files given to it.
MaxManifest == 3
MaxIndexLines == 2
MaxIndexFiles == 2

\* The lines a manifest is written from: a path, maybe with blanks around it, or a blank line.
ManifestLines == { <<"a.txt">>, <<" ", "b", " ">>, <<"d1/c.TXT">>, <<" ">> }

Manifests == UNION { [1..n -> ManifestLines] : n \in 0..MaxManifest }

\* The lines an index file read by the analyzer is written from.
CoverageItems ==
    { <<"File Name:", " ", "a.txt">>, <<"File Name:", "b">>, <<"File Name:", " ", ":">>,
      <<"File Name:">>, <<"u">>, SEP }

IndexTexts == UNION { [1..n -> CoverageItems] : n \in 0..MaxIndexLines }

\* Path(filepath).suffix.lstrip('.').lower()
SuffixLower(filepath) ==
    CASE filepath = <<"a.txt">> -> "txt"
      [] filepath = <<"d1/c.TXT">> -> "txt"
      [] OTHER -> ""

\* Path(filepath).parts
PathParts(filepath) ==
    IF filepath = <<"d1/c.TXT">> THEN <<"d1", "c.TXT">> ELSE filepath

ExtensionKeys == {"txt", "no_extension"}
DirectoryKeys == {"c.TXT"}
CoverageCategoryKeys == {"exploit", "shellcode", "tool", "doc", "error", "unknown"}

\* The for loop of load_all_files over the lines of the manifest.
RECURSIVE load_lines(_, _)
load_lines(st, manifest) ==
    IF manifest = <<>> THEN st
    ELSE LET filepath == strip(Head(manifest))
             ext == SuffixLower(filepath)
             parts == PathParts(filepath)
         IN IF filepath = <<>> THEN load_lines(st, Tail(manifest))
            ELSE load_lines(
                   [all_files |-> st.all_files \cup {filepath},
                    extensions |-> Count(st.extensions, IF ext = "" THEN "no_extension" ELSE ext),
                    directories |-> IF Len(parts) > 1 THEN Count(st.directories, parts[2])
                                    ELSE st.directories],
                   Tail(manifest))

\* The index files the analyzer is given, as path segments.
CoveragePaths ==
    SourcePaths \cup { <<"systemerror", "index_.txt">>, <<"old_exploits", "index_.txt">> }

\* The text of a path segment, cut where a marker begins or ends.
SegmentText(part) ==
    IF part = "old_exploits" THEN <<"old_", "exploits">> ELSE <<part>>

\* marker in part: the marker is a substring of the path segment.
Contains(part, marker) ==
    \E i \in 1..Len(SegmentText(part)) : SegmentText(part)[i] = marker

\* CoverageAnalyzer._determine_category
AnalyzerCategories ==
    << <<"exploits", "exploit">>, <<"shellcodes", "shellcode">>, <<"util", "tool">>,
       <<"Doc", "doc">>, <<"systemerror", "error">> >>

RECURSIVE analyzer_category(_)
analyzer_category(parts) ==
    IF parts = <<>> THEN "unknown"
    ELSE LET hits == { k \in 1..Len(AnalyzerCategories) :
                         Contains(Head(parts), AnalyzerCategories[k][1]) }
         IN IF hits # {}
            THEN AnalyzerCategories[CHOOSE k \in hits : \A j \in hits : k <= j][2]
            ELSE analyzer_category(Tail(parts))

\* The for loop over the lines of one block: the first `File Name:` line with a
\* value gives the filename (<<>>: the block has none).
RECURSIVE block_filename(_)
block_filename(block) ==
    IF block = <<>> THEN <<>>
    ELSE LET line == strip(Head(block))
         IN IF line # <<>> /\ Head(line) = "File Name:" /\ strip(Tail(line)) # <<>>
            THEN << strip(Tail(line)) >>
            ELSE block_filename(Tail(block))

\* The for loop of process_index_file over the blocks.
RECURSIVE index_blocks(_, _, _)
index_blocks(st, blocks, category) ==
    IF blocks = <<>> THEN st
    ELSE LET found == block_filename(Head(blocks))
         IN IF BlankBlock(Head(blocks)) \/ found = <<>>
            THEN index_blocks(st, Tail(blocks), category)
            ELSE index_blocks([indexed_files |-> st.indexed_files \cup {found[1]},
                               categories |-> Count(st.categories, category)],
                              Tail(blocks), category)

\* analyzer.load_all_files()
LoadAllFiles(manifest) ==
    /\ client = "coverage"
    /\ cpc = "load"
    /\ LET st == load_lines([all_files |-> {}, extensions |-> extensions,
                             directories |-> directories], manifest)
       IN /\ all_files' = st.all_files
          /\ extensions' = st.extensions
          /\ directories' = st.directories
    /\ cpc' = "index"
    /\ UNCHANGED <<client, storeVars, sweepVars, pipeVars, parserVars, runVars,
                   indexed_files, cov_categories, report, nindex>>

\* analyzer.process_index_file(index_file)
CovProcessIndexFile(path, text) ==
    /\ client = "coverage"
    /\ cpc = "index"
    /\ nindex < MaxIndexFiles
    /\ LET st == index_blocks([indexed_files |-> indexed_files, categories |-> cov_categories],
                              SplitBlocks(text, <<>>), analyzer_category(path))
       IN /\ indexed_files' = st.indexed_files
          /\ cov_categories' = st.categories
    /\ nindex' = nindex + 1
    /\ UNCHANGED <<client, storeVars, sweepVars, pipeVars, parserVars, runVars,
                   all_files, extensions, directories, report, cpc>>

\* coverage = (indexed_files / total_files * 100) if total_files > 0 else 0
coverage_percent(total_files, indexed) ==
    IF total_files > 0 THEN MulInt(TrueDiv(indexed, total_files), 100) ELSE Zero

\* sorted(counter.items(), key=count, reverse=True)[:10] as a dict: the counters
\* here never hold more than ten keys.
TopTen(counter) == { <<k, counter[k]>> : k \in { x \in DOMAIN counter : counter[x] > 0 } }

\* CoverageAnalyzer.generate_report
generate_report ==
    [total_files |-> Cardinality(all_files),
     indexed_files |-> Cardinality(indexed_files),
     coverage_percent |-> coverage_percent(Cardinality(all_files), Cardinality(indexed_files)),
     missing_files |-> Cardinality(all_files) - Cardinality(indexed_files),
     categories |-> TopTen(cov_categories),
     top_extensions |-> TopTen(extensions),
     top_directories |-> TopTen(directories)]

\* analyzer.save_report(output_path): report = self.generate_report()
SaveReport ==
    /\ client = "coverage"
    /\ cpc = "index"
    /\ report' = <<generate_report>>
    /\ cpc' = "done"
    /\ UNCHANGED <<client, storeVars, sweepVars, pipeVars, parserVars, runVars,
                   all_files, indexed_files, cov_categories, extensions, directories, nindex>>

\* The manifest or an index file cannot be read: except Exception ... sys.exit(1)
CoverageFails ==
    /\ client = "coverage"
    /\ cpc \in {"load", "index"}
    /\ cpc' = "failed"
    /\ UNCHANGED <<client, storeVars, sweepVars, pipeVars, parserVars, runVars,
                   all_files, indexed_files, cov_categories, extensions, directories, report,
                   nindex>>

----------------------------------------------------------------------------

InitStore ==
    /\ db = EmptyDb
    /\ committed = EmptyDb
    /\ last = NoCall
    /\ firstId = [p \in Paths |-> 0]
    /\ lastContent = [f \in FileIds |-> <<>>]

InitSweep ==
    /\ disk = {"d1/a.txt"}
    /\ pfpc = "idle"
    /\ pfFiles = <<>>
    /\ pfi = 0
    /\ pfStart = {}

InitPipe ==
    /\ \/ client = "api" /\ batch = <<>> /\ dry_run = FALSE
       \/ client = "pipeline" /\ batch \in Batches /\ dry_run \in BOOLEAN
    /\ ppc = "idle"
    /\ pei = 0
    /\ pfile_id = 0
    /\ processed = 0
    /\ stats = NewStatsAnalyzer
    /\ runs = 0
    /\ crashAt = "none"
    /\ writeRaised = FALSE

InitParser ==
    /\ content = <<>>
    /\ source_path = <<>>
    /\ errors = <<>>
    /\ results = <<>>
    /\ stage = "file"

\* A CoverageAnalyzer as constructed.
InitCoverage ==
    /\ all_files = {}
    /\ indexed_files = {}
    /\ cov_categories = [k \in CoverageCategoryKeys |-> 0]
    /\ extensions = [k \in ExtensionKeys |-> 0]
    /\ directories = [k \in DirectoryKeys |-> 0]
    /\ report = <<>>
    /\ cpc = "load"
    /\ nindex = 0

\* No run of process_all_indexes.
InitNoRun ==
    /\ index_files = <<>>
    /\ rpc = "discovering"
    /\ bi = 0
    /\ total_processed = 0
    /\ tasks = <<>>
    /\ handled = <<>>

Init == InitStore /\ InitSweep /\ InitPipe /\ InitParser /\ InitCoverage /\ InitNoRun

Next ==
    \/ \E file_data \in FileData : AddFile(file_data)
    \/ \E annotation_data \in AnnotationData : AddAnnotation(annotation_data)
    \/ \E content_data \in ContentData : AddContent(content_data)
    \/ \E file_id \in FileIds : MarkAsProcessed(file_id)
    \/ \E op \in WriteOps : WriteRaises(op)
    \/ PFFetch
    \/ PFMissing
    \/ PFStamp
    \/ PFMark
    \/ PFMarkRaises
    \/ PipeRun
    \/ PipeDryEntry
    \/ PipeAddFile
    \/ PipeAddAnnotation
    \/ PipeAddContent
    \/ PipeWriteRaises
    \/ PipeCrash

Spec == Init /\ [][Next]_vars

\* The parser alone: an index file is written and parsed.
InitParse ==
    /\ InitStore /\ InitSweep
    /\ client = "parser" /\ batch = <<>> /\ dry_run = FALSE
    /\ ppc = "idle" /\ pei = 0 /\ pfile_id = 0 /\ processed = 0
    /\ stats = NewStatsAnalyzer
    /\ runs = 0 /\ crashAt = "none" /\ writeRaised = FALSE
    /\ InitParser /\ InitCoverage /\ InitNoRun

NextParse ==
    \/ \E item \in Items : WriteItem(item)
    \/ \E path \in SourcePaths : ParseFile(path)
    \/ \E path \in SourcePaths : ParseUnreadableFile(path)

SpecParse == InitParse /\ [][NextParse]_vars

\* The coverage analysis alone: main of analyze_coverage.py.
InitAnalyze ==
    /\ InitStore /\ InitSweep
    /\ client = "coverage" /\ batch = <<>> /\ dry_run = FALSE
    /\ ppc = "idle" /\ pei = 0 /\ pfile_id = 0 /\ processed = 0
    /\ stats = NewStatsAnalyzer
    /\ runs = 0 /\ crashAt = "none" /\ writeRaised = FALSE
    /\ InitParser /\ InitCoverage /\ InitNoRun

NextAnalyze ==
    \/ \E manifest \in Manifests : LoadAllFiles(manifest)
    \/ \E path \in CoveragePaths, text \in IndexTexts : CovProcessIndexFile(path, text)
    \/ SaveReport
    \/ CoverageFails

SpecCoverage == InitAnalyze /\ [][NextAnalyze]_vars

\* A StatsAnalyzer alone.
InitStats ==
    /\ InitStore /\ InitSweep
    /\ client = "stats" /\ batch = <<>> /\ dry_run = TRUE
    /\ ppc = "idle" /\ pei = 0 /\ pfile_id = 0 /\ processed = 0
    /\ stats = NewStatsAnalyzer
    /\ runs = 0 /\ crashAt = "none" /\ writeRaised = FALSE
    /\ InitParser /\ InitCoverage /\ InitNoRun

NextStats == \E entry \in StatEntries : StatsAddEntry(entry)

SpecStats == InitStats /\ [][NextStats]_vars

\* A file row of the store before process_files is called: not yet processed, or
\* processed earlier (stamped when the file was another).
SweepRow(id, path, done) ==
    [id |-> id,
     filename |-> (IF path = "d1/a.txt" THEN "a.txt" ELSE "b"),
     full_path |-> path,
     file_type |-> SuffixNoDot(IF path = "d1/a.txt" THEN "a.txt" ELSE "b"),
     size |-> (IF done THEN 7 ELSE 0),
     modified_date |-> (IF done THEN "t1" ELSE NULL),
     category |-> "unknown",
     processed |-> done]

\* The files tables process_files may find: rowids 1..n, one row per full_path.
SweepTables ==
    { rows \in SUBSET { SweepRow(id, path, done) : id \in FileIds, path \in Paths,
                                                     done \in BOOLEAN } :
        /\ \A r, q \in rows : (r.id = q.id \/ r.full_path = q.full_path) => r = q
        /\ \A r \in rows : r.id <= Cardinality(rows) }

\* process_files called once on a store and a disk in any state.
InitSweepRun ==
    /\ client = "api" /\ batch = <<>> /\ dry_run = FALSE
    /\ ppc = "idle" /\ pei = 0 /\ pfile_id = 0 /\ processed = 0
    /\ stats = NewStatsAnalyzer
    /\ runs = 0 /\ crashAt = "none" /\ writeRaised = FALSE
    /\ InitParser /\ InitCoverage /\ InitNoRun
    /\ \E rows \in SweepTables :
          /\ db = [files |-> rows, annotations |-> {}, content |-> {}]
          /\ firstId = [p \in Paths |->
                          IF \E r \in rows : r.full_path = p
                          THEN (CHOOSE r \in rows : r.full_path = p).id ELSE 0]
          /\ pfStart = rows
    /\ committed = db
    /\ last = NoCall
    /\ lastContent = [f \in FileIds |-> <<>>]
    /\ disk \in SUBSET Paths
    /\ pfpc = "idle" /\ pfFiles = <<>> /\ pfi = 0

NextSweep ==
    \/ PFFetch
    \/ PFMissing
    \/ PFStamp
    \/ PFMark
    \/ PFMarkRaises

\* The loop of process_files keeps running, and mark_as_processed does not fail
\* for ever.
SpecSweep == InitSweepRun /\ [][NextSweep]_vars /\ WF_vars(NextSweep) /\ SF_vars(PFMark)

----------------------------------------------------------------------------
(* SecurityDatasetBuilder.process_index_files (src/src/main.py): the index    *)
(* files under root_dir, one after the other, each entry as a file row and an *)
(* annotation.  Positions: rpc "discovering" | "building" | "done", and in    *)
(* ppc "parse" | "file" | "annotation" | "done".                              *)

\* What IndexParser.parse_file returns for the index file at path: a list of
\* entries with a filename, a description, source_index and metadata.
ParserLists(path) ==
    { <<Entry(path, "a.txt", "x", <<>>), Entry(path, "b", "x", <<>>)>>,
      <<Entry(path, "b", "y", <<"t">>)>>,
      <<>> }

\* list(root_dir.rglob(index_pattern)), each file with what it parses to.
BuilderFileLists ==
    UNION { { files \in [1..n -> [index_path : {IndexPath(i) : i \in 1..n},
                                   parsed : UNION {ParserLists(IndexPath(i)) : i \in 1..n}]] :
                \A i \in 1..n : /\ files[i].index_path = IndexPath(i)
                                /\ files[i].parsed \in ParserLists(IndexPath(i)) }
            : n \in 0..MaxIndexFilesFound }

\* str(root_dir / annotation["filename"]), root_dir the directory of the files list
RootDirJoin(filename) == PathJoinParent("d1/files.txt", filename)

\* Path(annotation["filename"]).suffix
Suffix(filename) == IF filename = "a.txt" THEN ".txt" ELSE ""

\* file_data of process_index_files
BuilderFileData(annotation) ==
    [filename |-> annotation.filename,
     full_path |-> RootDirJoin(annotation.filename),
     file_type |-> Suffix(annotation.filename),
     size |-> 0,
     modified_date |-> NULL,
     category |-> IF "categories" \in DOMAIN annotation.metadata
                  THEN annotation.metadata.categories[1] ELSE NULL,
     processed |-> FALSE]

\* annotation_data of process_index_files
BuilderAnnotationData(annotation, file_id) ==
    [file_id |-> file_id,
     annotation_date |-> annotation.annotation_date,
     description |-> annotation.description,
     source_index |-> annotation.source_index]

\* The for loop over index_files moves on (also by continue in the except branch).
BuilderNextIndexFile ==
    IF bi < Len(index_files)
    THEN bi' = bi + 1 /\ ppc' = "parse" /\ rpc' = rpc
    ELSE bi' = bi /\ ppc' = "done" /\ rpc' = "done"

\* process_index_files is called: the index files are found.
BuilderStart ==
    /\ client = "build"
    /\ rpc = "discovering"
    /\ IF index_files = <<>>
       THEN rpc' = "done" /\ ppc' = "done" /\ bi' = bi
       ELSE rpc' = "building" /\ ppc' = "parse" /\ bi' = 1
    /\ UNCHANGED <<client, storeVars, sweepVars, parserVars, covVars, index_files,
                   total_processed, tasks, handled, batch, dry_run, pei, pfile_id, processed,
                   stats, runs, crashAt, writeRaised>>

\* annotations = self.index_parser.parse_file(str(index_file))
BuilderParseFile ==
    /\ client = "build"
    /\ rpc = "building" /\ ppc = "parse"
    /\ batch' = index_files[bi].parsed
    /\ IF batch' = <<>>
       THEN BuilderNextIndexFile /\ pei' = pei
       ELSE pei' = 1 /\ ppc' = "file" /\ UNCHANGED <<rpc, bi>>
    /\ UNCHANGED <<client, storeVars, sweepVars, parserVars, covVars, index_files,
                   total_processed, tasks, handled, dry_run, pfile_id, processed, stats, runs,
                   crashAt, writeRaised>>

\* file_id = self.db_manager.add_file(file_data)
BuilderAddFile ==
    /\ client = "build"
    /\ rpc = "building" /\ ppc = "file"
    /\ CallAddFile(BuilderFileData(batch[pei]))
    /\ pfile_id' = last'.ret
    /\ ppc' = "annotation"
    /\ UNCHANGED <<client, sweepVars, parserVars, covVars, runVars, batch, dry_run, pei,
                   processed, stats, runs, crashAt, writeRaised>>

\* annotation_data = {...}; self.db_manager.add_annotation(annotation_data).
\* annotation["annotation_date"] raises KeyError when the entry has no such key:
\* the except branch around the index file logs and goes on to the next file.
BuilderAddAnnotation ==
    /\ client = "build"
    /\ rpc = "building" /\ ppc = "annotation"
    /\ IF "annotation_date" \in DOMAIN batch[pei]
       THEN /\ CallAddAnnotation(BuilderAnnotationData(batch[pei], pfile_id))
            /\ handled' = Append(handled, Handled(batch[pei], "saved"))
            /\ IF pei < Len(batch)
               THEN pei' = pei + 1 /\ ppc' = "file" /\ UNCHANGED <<rpc, bi>>
               ELSE pei' = pei /\ BuilderNextIndexFile
       ELSE /\ UNCHANGED storeVars
            /\ handled' = Append(handled, Handled(batch[pei], "raised"))
            /\ pei' = pei /\ BuilderNextIndexFile
    /\ UNCHANGED <<client, sweepVars, parserVars, covVars, index_files, total_processed, tasks,
                   batch, dry_run, pfile_id, processed, stats, runs, crashAt, writeRaised>>

\* add_file raises (a failure of the store): rollback, re-raise, and the except
\* branch around the index file goes on to the next file.
BuilderWriteRaises ==
    /\ client = "build"
    /\ rpc = "building" /\ ppc = "file"
    /\ CallRaises("add_file", 0)
    /\ writeRaised' = TRUE
    /\ handled' = Append(handled, Handled(batch[pei], "raised"))
    /\ pei' = pei /\ BuilderNextIndexFile
    /\ UNCHANGED <<client, sweepVars, parserVars, covVars, index_files, total_processed, tasks,
                   batch, dry_run, pfile_id, processed, stats, runs, crashAt>>

\* builder.process_index_files() on an empty store.
InitBuilder ==
    /\ InitStore /\ InitSweep
    /\ client = "build" /\ batch = <<>> /\ dry_run = FALSE
    /\ ppc = "idle" /\ pei = 0 /\ pfile_id = 0 /\ processed = 0
    /\ stats = NewStatsAnalyzer
    /\ runs = 0 /\ crashAt = "none" /\ writeRaised = FALSE
    /\ InitParser /\ InitCoverage
    /\ index_files \in BuilderFileLists
    /\ rpc = "discovering" /\ bi = 0 /\ total_processed = 0 /\ tasks = <<>>
    /\ handled = <<>>

NextBuilder ==
    \/ BuilderStart
    \/ BuilderParseFile
    \/ BuilderAddFile
    \/ BuilderAddAnnotation
    \/ BuilderWriteRaises

SpecBuilder == InitBuilder /\ [][NextBuilder]_vars

\* A whole run of the pipeline over the index files found.
InitRun ==
    /\ InitStore /\ InitSweep
    /\ client = "run" /\ batch = <<>> /\ dry_run \in BOOLEAN
    /\ ppc = "idle" /\ pei = 0 /\ pfile_id = 0 /\ processed = 0
    /\ stats = NewStatsAnalyzer
    /\ runs = 0 /\ crashAt = "none" /\ writeRaised = FALSE
    /\ InitParser /\ InitCoverage
    /\ index_files \in IndexFileLists
    /\ rpc = "discovering" /\ bi = 0 /\ total_processed = 0 /\ tasks = <<>>
    /\ handled = <<>>

NextRun ==
    \/ RunNoIndexFiles
    \/ RunDeclined
    \/ RunStart
    \/ \E k \in 1..IndexBatchSize : RunTaskDone(k)
    \/ RunParseBatch
    \/ PipeDryEntry
    \/ PipeAddFile
    \/ PipeAddAnnotation
    \/ PipeAddContent
    \/ PipeWriteRaises
    \/ RunBatchDone
    \/ RunReport
    \/ RunAbort

SpecRun == InitRun /\ [][NextRun]_vars

----------------------------------------------------------------------------
(* What a single uninterrupted run of the pipeline over a batch writes *)

RECURSIVE RunFrom(_, _, _)
RunFrom(d, entries, i) ==
    IF i > Len(entries) THEN d
    ELSE LET f == add_file(d, PipeFileData(entries[i]))
             a == add_annotation(f.db, PipeAnnotationData(entries[i], f.ret))
             c == add_content(a.db, PipeContentData(entries[i], f.ret))
         IN RunFrom(c.db, entries, i + 1)

UninterruptedRun(entries) == RunFrom(EmptyDb, entries, 1)

\* The content rows without their surrogate id.
ContentByFile(d) ==
    { [file_id |-> r.file_id, raw_text |-> r.raw_text, cleaned_text |-> r.cleaned_text,
       metadata |-> r.metadata] : r \in d.content }

AllFileData == FileData \cup { PipeFileData(e) : e \in Entries }

AllAnnotationData ==
    AnnotationData \cup { PipeAnnotationData(e, f) : e \in Entries, f \in FileIds }

----------------------------------------------------------------------------
(* Claims *)

\* C1: every successful add_file for a full_path returns the id the first call for
\* that path returned, and the files table holds exactly one row with that path,
\* whatever other store operations come in between.
C1_UpsertFileSameId ==
    /\ \A p \in Paths :
          firstId[p] # 0 =>
             LET rows == { r \in db.files : r.full_path = p }
             IN Cardinality(rows) = 1 /\ \A r \in rows : r.id = firstId[p]
    /\ (last.op = "add_file" /\ ~last.raised) => last.ret = firstId[last.path]

\* C1 witness: an add_file for a path already in the table has returned.
C1_Witness ==
    /\ last.op = "add_file" /\ ~last.raised /\ last.existed
    /\ db.annotations # {} /\ db.content # {}

\* C2: an add_file whose full_path is already in the files table leaves every
\* field of every file row as it was, whatever the new record carries.
C2_FirstWriteWins ==
    [][\A file_data \in AllFileData :
          (CallAddFile(file_data) /\ \E r \in db.files : r.full_path = file_data.full_path)
             => db'.files = db.files]_vars

\* C2 witness: an add_file for an existing path carried another filename than the row has.
C2_Witness ==
    /\ last.op = "add_file" /\ ~last.raised /\ last.existed
    /\ \E r \in db.files : r.full_path = last.path /\ r.filename # last.filename

\* C3: the annotations table never holds two rows with the same (file_id,
\* source_index); an add_annotation for a pair that is there returns that row's id
\* and changes no table.
C3_AnnotationPairUnique ==
    /\ [](\A r1, r2 \in db.annotations :
             (r1.file_id = r2.file_id /\ r1.source_index = r2.source_index) => r1 = r2)
    /\ [][\A annotation_data \in AllAnnotationData :
             (CallAddAnnotation(annotation_data) /\ SelectAnnotation(db, annotation_data) # {})
                => /\ db' = db
                   /\ \A r \in SelectAnnotation(db, annotation_data) : last'.ret = r.id]_vars

\* C3 witness: the second run of the pipeline over the batch has found an entry's
\* annotation already there.
C3_Witness ==
    /\ client = "pipeline" /\ runs = 2 /\ crashAt = "none" /\ ~writeRaised
    /\ last.op = "add_annotation" /\ last.existed

\* C4: the content table holds one row for every file_id add_content was called
\* for and none for any other, and the row carries the raw_text, the cleaned_text
\* and the (serialised) metadata of the most recent call for that file_id.
C4_ContentLastWriteWins ==
    \A f \in FileIds :
       LET rows == { r \in db.content : r.file_id = f }
       IN IF lastContent[f] = <<>>
          THEN rows = {}
          ELSE /\ Cardinality(rows) = 1
               /\ \A r \in rows :
                     /\ r.raw_text = lastContent[f][1].raw_text
                     /\ r.cleaned_text = lastContent[f][1].cleaned_text
                     /\ r.metadata = json_dumps(lastContent[f][1].metadata)

\* C4 witness: a direct add_content has replaced the row of a file_id by other values.
C4_Witness ==
    /\ client = "api" /\ last.op = "add_content" /\ last.existed
    /\ lastContent[last.file_id][1].raw_text = "r"

\* C5: a file row whose processed flag is set keeps it set in every later state,
\* in the connection's view and in the committed tables.
C5_ProcessedMonotonic ==
    [][/\ \A r \in db.files : r.processed =>
             \E q \in db'.files : q.id = r.id /\ q.processed
       /\ \A r \in committed.files : r.processed =>
             \E q \in committed'.files : q.id = r.id /\ q.processed]_vars

\* C5 witness: add_file with processed = false has returned for a path whose row,
\* inserted unprocessed, had been flagged processed.
C5_Witness ==
    /\ last.op = "add_file" /\ last.existed /\ last.filename = "a"
    /\ \E r \in db.files : r.full_path = last.path /\ r.filename = "a" /\ r.processed

\* C6: a write operation that raises leaves the three tables exactly as they were
\* before the call.
C6_FailedWriteLeavesTables ==
    [][\A op \in WriteOps : \A file_id \in FileIds \cup {0} :
          CallRaises(op, file_id) => db' = db]_vars

\* C7: a run that completes after any interruptions of earlier runs, no write
\* having raised, ends with the file rows, the annotation rows and the content
\* rows per file_id of one uninterrupted run, with one content row per file_id.
C7_ReRunAfterInterruption ==
    (client = "pipeline" /\ ppc = "done" /\ ~dry_run /\ ~writeRaised) =>
        LET want == UninterruptedRun(batch)
        IN /\ db.files = want.files
           /\ db.annotations = want.annotations
           /\ ContentByFile(db) = ContentByFile(want)
           /\ Cardinality(db.content) = Cardinality(ContentByFile(db))
           /\ committed = db

\* C7 witness: a run was interrupted after an entry's file row was committed and
\* before its annotation, and the run after it has completed.
C7_Witness ==
    /\ client = "pipeline" /\ ppc = "done" /\ ~dry_run /\ ~writeRaised
    /\ crashAt = "annotation"
    /\ Cardinality(db.files) = 2

----------------------------------------------------------------------------
(* Claims about parse_file                                                    *)

\* The blocks of the file that was parsed which are not blank.
RECURSIVE DropBlank(_)
DropBlank(blocks) ==
    IF blocks = <<>> THEN <<>>
    ELSE IF BlankBlock(Head(blocks)) THEN DropBlank(Tail(blocks))
    ELSE <<Head(blocks)>> \o DropBlank(Tail(blocks))

NonBlankBlocks == DropBlank(SplitBlocks(content, <<>>))

\* The values of the `File Name:` lines of a block that are neither empty nor ":".
FileNameValues(block) ==
    { strip(SubSeq(strip(block[i]), 2, Len(strip(block[i])))) :
        i \in { j \in 1..Len(block) : strip(block[j]) # <<>> /\ Head(strip(block[j])) = "File Name:" } }
    \ { <<>>, <<":">> }

HasUsableFileName(block) == FileNameValues(block) # {}

RECURSIVE CountUsable(_)
CountUsable(blocks) ==
    IF blocks = <<>> THEN 0
    ELSE (IF HasUsableFileName(Head(blocks)) THEN 1 ELSE 0) + CountUsable(Tail(blocks))

RECURSIVE KeepUsable(_)
KeepUsable(blocks) ==
    IF blocks = <<>> THEN <<>>
    ELSE IF HasUsableFileName(Head(blocks)) THEN <<Head(blocks)>> \o KeepUsable(Tail(blocks))
    ELSE KeepUsable(Tail(blocks))

\* C8: parse_file never raises for any file content: a malformed block is skipped
\* and recorded as an error while the other blocks of the file are still returned,
\* in order; a read error, with zero entries and exactly one new error, comes only
\* from a file that cannot be opened or decoded.
C8_NeverRaisesOnContent ==
    /\ stage = "parsed" =>
          /\ \A k \in 1..Len(errors) : errors[k].kind = "skipped"
          /\ Len(results) = Len(KeepUsable(NonBlankBlocks))
          /\ \A k \in 1..Len(results) :
                results[k].filename[1] \in FileNameValues(KeepUsable(NonBlankBlocks)[k])
    /\ stage = "unreadable" =>
          /\ results = <<>>
          /\ errors = <<ReadError(source_path)>>

\* A file with a malformed block before a good one is parsed: the good block is returned.
C8_Witness ==
    /\ stage = "parsed"
    /\ Len(NonBlankBlocks) >= 2
    /\ ~HasUsableFileName(NonBlankBlocks[1])
    /\ Len(results) >= 1
    /\ Len(errors) >= 1

\* C9: every non-blank block without a `File Name:` line of usable value (no such
\* line, or only the placeholder ":") gives no entry and exactly one error naming
\* the source file; returned entries plus new errors equal the non-blank blocks.
C9_NoFileNameNoEntry ==
    stage = "parsed" =>
        /\ Len(results) = CountUsable(NonBlankBlocks)
        /\ Len(errors) = Len(NonBlankBlocks) - CountUsable(NonBlankBlocks)
        /\ \A k \in 1..Len(errors) : errors[k] = [kind |-> "skipped", file |-> source_path]
        /\ Len(results) + Len(errors) = Len(NonBlankBlocks)

\* A block whose only `File Name:` line holds the placeholder ":" is parsed next to a good block.
C9_Witness ==
    /\ stage = "parsed"
    /\ \E k \in 1..Len(NonBlankBlocks) :
          /\ ~HasUsableFileName(NonBlankBlocks[k])
          /\ \E i \in 1..Len(NonBlankBlocks[k]) : NonBlankBlocks[k][i] = <<"File Name:", " ", ":">>
    /\ Len(results) = 1
    /\ Len(errors) = 1

\* No leading or trailing whitespace and no two whitespace characters in a row.
NoDuplicateWhitespace(text) ==
    /\ text # <<>> => Head(text) \notin WS /\ text[Len(text)] \notin WS
    /\ \A i \in 1..(Len(text) - 1) : ~(text[i] \in WS /\ text[i + 1] \in WS)

\* C10: the description of every entry returned by parse_file has no leading or
\* trailing whitespace and no run of two or more whitespace characters, also when
\* a collected line itself contains repeated spaces or tabs.
C10_DescriptionNoDuplicateWhitespace ==
    stage = "parsed" =>
        \A k \in 1..Len(results) : NoDuplicateWhitespace(results[k].description)

\* The lines that leave description collection: tags, systems, hash and author lines.
EndsDescription(raw) ==
    LET line == strip(raw)
    IN line # <<>> /\ (Head(line) \in {"tags |", "systems |"} \/ HashMatch(line) \/ AuthorMatch(line))

\* The item at position p of the file is a line that goes to the description: it
\* is none of the recognised lines, and the nearest line before it that enters or
\* leaves description collection is a `Description:` line.
IsCollected(p) ==
    LET line == strip(content[p])
    IN /\ content[p] # SEP
       /\ line # <<>>
       /\ ~FileNameMatch(line)
       /\ line # <<"Description:">>
       /\ ~EndsDescription(line)
       /\ \E q \in 1..(p - 1) :
             /\ strip(content[q]) = <<"Description:">>
             /\ \A r \in (q + 1)..(p - 1) : ~EndsDescription(content[r])

\* The positions of the items of each block of the file, block by block.
RECURSIVE BlockSpans(_, _)
BlockSpans(p, lo) ==
    IF p > Len(content) THEN << lo..Len(content) >>
    ELSE IF content[p] = SEP THEN << lo..(p - 1) >> \o BlockSpans(p + 1, p + 1)
    ELSE BlockSpans(p + 1, lo)

SpanBlock(span) == [ i \in 1..Cardinality(span) |-> content[(CHOOSE lo \in span : \A x \in span : lo <= x) + i - 1] ]

UsableSpan(span) == span # {} /\ ~BlankBlock(SpanBlock(span)) /\ HasUsableFileName(SpanBlock(span))

RECURSIVE KeepUsableSpans(_)
KeepUsableSpans(spans) ==
    IF spans = <<>> THEN <<>>
    ELSE IF UsableSpan(Head(spans)) THEN <<Head(spans)>> \o KeepUsableSpans(Tail(spans))
    ELSE KeepUsableSpans(Tail(spans))

\* The positions of the blocks that give an entry, in file order.
EntrySpans == KeepUsableSpans(BlockSpans(1, 1))

PlainLine(raw) ==
    LET line == strip(raw)
    IN /\ raw # SEP
       /\ line # <<>>
       /\ Head(line) \notin {"File Name:", "tags |", "systems |", "MD5", "SHA-256", "Authored by"}
       /\ line # <<"Description:">>

\* The collected lines among the positions lo..hi, stripped, in file order.
RECURSIVE CollectedLines(_, _)
CollectedLines(lo, hi) ==
    IF lo > hi THEN <<>>
    ELSE (IF IsCollected(lo) THEN <<strip(content[lo])>> ELSE <<>>) \o CollectedLines(lo + 1, hi)

SpanLo(span) == CHOOSE lo \in span : \A x \in span : lo <= x
SpanHi(span) == CHOOSE hi \in span : \A x \in span : hi >= x

\* The file is one block: a File Name line, `Description:`, plain lines, a tags line.
ScenarioBlock ==
    /\ Len(content) >= 4
    /\ content[1] \in { <<"File Name:", " ", "a.txt">>, <<"File Name:", "b">> }
    /\ content[2] = <<"Description:">>
    /\ \A p \in 3..(Len(content) - 1) : PlainLine(content[p])
    /\ content[Len(content)] = <<"tags |", " ", "x", ",", ",", " ", "y", " ">>

RECURSIVE StrippedLines(_, _)
StrippedLines(lo, hi) ==
    IF lo > hi THEN <<>> ELSE <<strip(content[lo])>> \o StrippedLines(lo + 1, hi)

\* C12: a block of the form File Name line, `Description:` line, description
\* lines, `tags | a, b` line parses to exactly one entry with the File Name value,
\* the space-join of the description lines, the tags trimmed, without empties and
\* in their order, and no hashes; and a tags, systems, hash or author line ends
\* description collection: every description is the join of the lines that follow
\* a `Description:` line with no such line in between.
C12_BlockScenario ==
    stage = "parsed" =>
        /\ ScenarioBlock =>
              /\ Len(results) = 1
              /\ results[1].filename = << lstrip(Tail(content[1])) >>
              /\ results[1].description = JoinSpace(StrippedLines(3, Len(content) - 1))
              /\ results[1].metadata.tags = << <<"x">>, <<"y">> >>
              /\ results[1].metadata.hashes = {}
        /\ LET spans == EntrySpans
           IN /\ Len(results) = Len(spans)
              /\ \A k \in 1..Len(results) :
                    LET lines == CollectedLines(SpanLo(spans[k]), SpanHi(spans[k]))
                    IN results[k].description =
                          IF lines = <<>> THEN NoDescription ELSE JoinSpace(lines)

\* The scenario block is parsed.
C12_Witness ==
    /\ stage = "parsed"
    /\ ScenarioBlock
    /\ Len(results) = 1

\* The category each marker segment stands for.
MarkerCategory(part) ==
    CASE part = "exploits" -> "exploit"
      [] part = "shellcodes" -> "shellcode"
      [] part = "util" -> "tool"
      [] part = "Doc" -> "doc"
      [] part = "systemerror" -> "systemerror"
      [] OTHER -> "unknown"

\* The first segment of the path that is a marker, if any.
CategoryOfPath(path) ==
    LET hits == { i \in 1..Len(path) : MarkerCategory(path[i]) # "unknown" }
    IN IF hits = {} THEN "unknown"
       ELSE MarkerCategory(path[CHOOSE i \in hits : \A j \in hits : i <= j])

\* C13: the category of an index file is that of the first path segment that is
\* exactly a marker (exploits, shellcodes, util, Doc, systemerror), 'unknown'
\* when no segment is one; it depends only on the path, so every entry parsed
\* from one file carries the same category whatever its blocks.
C13_CategoryFromPath ==
    stage = "parsed" =>
        \A k \in 1..Len(results) : results[k].metadata.category = CategoryOfPath(source_path)

\* Two entries are parsed from a file whose path holds two markers.
C13_Witness ==
    /\ stage = "parsed"
    /\ Len(results) = 2
    /\ source_path = <<"util", "Doc", "index_.txt">>
    /\ results[1].metadata.category = "tool"
    /\ results[2].metadata.category = "tool"

----------------------------------------------------------------------------
(* Claims about the coverage analysis                                         *)

\* C14: generate_report returns coverage_percent exactly equal to
\* 100 * indexed / total (the double nearest to it), total the number of distinct
\* manifest paths and indexed the number of distinct indexed filenames, and 0
\* without raising when total is 0.
C14_CoveragePercentExact ==
    report # <<>> =>
        /\ report[1].total_files = Cardinality(all_files)
        /\ report[1].indexed_files = Cardinality(indexed_files)
        /\ report[1].coverage_percent =
              IF Cardinality(all_files) = 0 THEN Zero
              ELSE TrueDiv(100 * Cardinality(indexed_files), Cardinality(all_files))

\* C15: coverage counts the manifest paths that some index entry names: indexed
\* files is the number of manifest paths named by an index entry, so
\* 0 <= indexed <= total, coverage lies between 0 and 100, and missing is the
\* number, never negative, of manifest paths no index file names.
C15_CoverageCountsManifestPaths ==
    report # <<>> =>
        /\ report[1].indexed_files = Cardinality(all_files \cap indexed_files)
        /\ 0 <= report[1].indexed_files
        /\ report[1].indexed_files <= report[1].total_files
        /\ report[1].missing_files = Cardinality(all_files \ indexed_files)
        /\ report[1].missing_files >= 0

----------------------------------------------------------------------------
(* Claims about the statistics                                                *)

\* The counts a Counter holds, added up.
RECURSIVE SumCounter(_, _)
SumCounter(counter, keys) ==
    IF keys = {} THEN 0
    ELSE LET k == CHOOSE x \in keys : TRUE
         IN counter[k] + SumCounter(counter, keys \ {k})

Total(counter) == SumCounter(counter, DOMAIN counter)

\* C16: each add_entry call raises total_entries by one; the category,
\* file-extension and author counters each gain exactly one count; each tag and
\* each system the entry names gains exactly one count (no tag or system gains
\* more); hence no counter value ever exceeds total_entries.
C16_CountedOncePerEntry ==
    [][stats' # stats =>
          /\ stats'.total_entries = stats.total_entries + 1
          /\ Total(stats'.categories) = Total(stats.categories) + 1
          /\ Total(stats'.file_types) = Total(stats.file_types) + 1
          /\ Total(stats'.authors) = Total(stats.authors) + 1
          /\ \A k \in StatTagKeys : stats'.tags[k] \in {stats.tags[k], stats.tags[k] + 1}
          /\ \A k \in StatSystemKeys :
                stats'.systems[k] \in {stats.systems[k], stats.systems[k] + 1}
          /\ \A name \in {"categories", "tags", "systems", "file_types", "authors"} :
                \A k \in DOMAIN stats'[name] : stats'[name][k] <= stats'.total_entries]_vars

----------------------------------------------------------------------------
(* Claims about a run of the pipeline                                         *)

\* A non-empty filename, description and source_index, and a metadata field.
HasRequiredFields(entry) ==
    /\ "filename" \in DOMAIN entry /\ entry.filename # ""
    /\ "description" \in DOMAIN entry /\ entry.description # ""
    /\ "source_index" \in DOMAIN entry /\ entry.source_index # ""
    /\ "metadata" \in DOMAIN entry

\* What the first n index files parse to, in order.
RECURSIVE ParsedUpTo(_)
ParsedUpTo(n) == IF n = 0 THEN <<>> ELSE ParsedUpTo(n - 1) \o index_files[n].parsed

\* The valid entries of the run, in the order of the index files.
ValidEntries == SelectSeq(ParsedUpTo(Len(index_files)), HasRequiredFields)

\* The entries save_entries_to_db has dealt with so far, in order.
HandledEntries == [i \in 1..Len(handled) |-> handled[i].entry]

IsPrefix(s, t) == Len(s) <= Len(t) /\ s = SubSeq(t, 1, Len(s))

\* The rows of an entry are in the store: its file row, an annotation of this
\* file from the entry's index file, and a content row of this file.
Stored(d, entry) ==
    \E f \in d.files :
        /\ f.full_path = PathJoinParent(entry.index_path, entry.filename)
        /\ \E a \in d.annotations : a.file_id = f.id /\ a.source_index = entry.source_index
        /\ \E c \in d.content : c.file_id = f.id

\* C17: in a dry run no write operation of the store is ever invoked (the store
\* stays empty and no call is recorded) and the valid entries are given to the
\* StatsAnalyzer once each, in order; in a normal run the StatsAnalyzer is never
\* given an entry, the valid entries go to the store once each, in order, and an
\* entry whose three writes were done has its rows in the store.
C17_DryRunRoutesToStats ==
    client = "run" =>
        /\ IsPrefix(HandledEntries, ValidEntries)
        /\ rpc = "done" => HandledEntries = ValidEntries
        /\ dry_run =>
             /\ last = NoCall /\ db = EmptyDb /\ committed = EmptyDb
             /\ \A i \in 1..Len(handled) : handled[i].outcome = "stats"
             /\ stats.total_entries = Len(handled)
        /\ ~dry_run =>
             /\ stats = NewStatsAnalyzer
             /\ \A i \in 1..Len(handled) :
                   /\ handled[i].outcome \in {"saved", "raised"}
                   /\ handled[i].outcome = "saved" => Stored(committed, handled[i].entry)

\* C17 witness: a dry run over two index files with three valid entries and two
\* invalid ones has ended.
C17_Witness ==
    /\ client = "run" /\ rpc = "done" /\ dry_run
    /\ Len(index_files) = 2 /\ Len(ParsedUpTo(2)) = 5
    /\ Len(handled) = 3 /\ stats.total_entries = 3

\* C18: every entry handed to save_entries_to_db, and so every entry given to
\* the StatsAnalyzer or to the store, has a non-empty filename, a non-empty
\* description, a non-empty source_index and a metadata field; an entry of an
\* index file without them is never handled, and no row of the store has an
\* empty filename, description or source_index.
C18_OnlyValidEntriesReachSink ==
    client = "run" =>
        /\ \A i \in 1..Len(batch) : HasRequiredFields(batch[i])
        /\ \A i \in 1..Len(handled) : HasRequiredFields(handled[i].entry)
        /\ \A n \in 1..Len(index_files) : \A k \in 1..Len(index_files[n].parsed) :
              LET entry == index_files[n].parsed[k]
              IN  ~HasRequiredFields(entry) =>
                     /\ \A i \in 1..Len(batch) : batch[i] # entry
                     /\ \A i \in 1..Len(handled) : handled[i].entry # entry
        /\ \A f \in db.files : f.filename # ""
        /\ \A a \in db.annotations : a.description # "" /\ a.source_index # ""

\* C18 witness: a normal run over one index file that parses to an entry with an
\* empty filename, a valid entry and an entry without metadata has ended, and
\* the valid entry alone was saved.
C18_Witness ==
    /\ client = "run" /\ rpc = "done" /\ ~dry_run
    /\ Len(index_files) = 1 /\ Len(index_files[1].parsed) = 3
    /\ ~HasRequiredFields(index_files[1].parsed[1])
    /\ ~HasRequiredFields(index_files[1].parsed[3])
    /\ Len(handled) = 1 /\ handled[1].outcome = "saved"
    /\ Cardinality(db.files) = 1

\* The valid entries of the first n index files, in order.
ValidUpTo(n) == SelectSeq(ParsedUpTo(n), HasRequiredFields)

\* C19: a store write that raises for an entry aborts neither the batch nor the
\* run: the loop moves on to the next entry of the batch, or the batch ends and
\* the run goes on; whenever a batch is about to be parsed, every valid entry of
\* the index files before it has been handled, and when the run is done every
\* valid entry of every index file has been, whichever writes raised and
\* whichever index files parsed to nothing; total_processed counts the entries
\* handled without a failure.
C19_FailureDoesNotAbort ==
    [][client = "run" =>
         /\ (Len(handled') = Len(handled) + 1 /\ handled'[Len(handled')].outcome = "raised") =>
               /\ rpc' = "writing" /\ batch' = batch
               /\ IF pei < Len(batch) THEN pei' = pei + 1 /\ ppc' = "file"
                  ELSE ppc' = "done"
         /\ rpc' = "parsing" => HandledEntries' = ValidUpTo(bi' - 1)
         /\ rpc' = "done" =>
               /\ HandledEntries' = ValidEntries
               /\ total_processed' =
                     Cardinality({i \in 1..Len(handled') : handled'[i].outcome # "raised"})]_vars

\* C19 witness: a normal run of two batches has ended; the first index file
\* parsed to nothing, every write of the first batch failed (the two entries of
\* the second index file), and the last entry of the second batch was saved.
C19_Witness ==
    /\ client = "run" /\ rpc = "done" /\ ~dry_run
    /\ Len(index_files) = 3 /\ index_files[1].parsed = <<>>
    /\ Len(ValidUpTo(2)) = 2
    /\ handled[1].outcome = "raised"
    /\ handled[2].outcome = "raised"
    /\ Len(handled) > 2
    /\ handled[Len(handled)].outcome = "saved"
    /\ Stored(db, handled[Len(handled)].entry)

\* The moves from one stage of a run to another that the claimed state machine
\* allows: the stages in order, the write stage followed by the parse stage of
\* the next batch, and the abort of a run that has not ended.
StageSteps ==
    { <<"discovering", "parsing">>, <<"parsing", "writing">>, <<"writing", "parsing">>,
      <<"writing", "reporting">>, <<"reporting", "done">> }
    \cup { <<s, "aborted">> : s \in {"discovering", "parsing", "writing", "reporting"} }

\* C20: a run changes stage only along Discovering, Parsing, Writing, Reporting,
\* Done, or into Aborted from a stage before Done; it goes back from Writing to
\* Parsing only for the next batch of index files and on to Reporting only after
\* the last one, so that Parsing and Writing alternate once per batch; it never
\* leaves Done or Aborted.
C20_StagesInOrder ==
    [][client = "run" =>
         /\ rpc' # rpc => <<rpc, rpc'>> \in StageSteps
         /\ rpc \in {"done", "aborted"} => rpc' = rpc
         /\ (rpc = "discovering" /\ rpc' = "parsing") => bi' = 1
         /\ (rpc = "writing" /\ rpc' = "parsing") =>
               bi' = bi + IndexBatchSize /\ bi' <= Len(index_files)
         /\ (rpc = "writing" /\ rpc' = "reporting") => bi + IndexBatchSize > Len(index_files)
         /\ (rpc = "parsing" /\ rpc' = "writing") => bi' = bi]_vars

\* C20 witness: a run over two batches of index files has gone through every
\* stage and is done.
C20_Witness ==
    /\ client = "run" /\ rpc = "done"
    /\ Len(index_files) > IndexBatchSize
    /\ bi = Len(index_files) - ((Len(index_files) - 1) % IndexBatchSize)
    /\ bi > 1

\* C21: the index files are taken in contiguous batches of at most
\* IndexBatchSize files in the order found: the tasks of a batch are submitted
\* together, for the files that follow the batch before, and only when every
\* valid entry of the earlier files has been handled and the writer is not at
\* work; an entry is handled, and the store or the StatsAnalyzer is touched,
\* only when every parse task of the current batch has completed; and the
\* entries handled are those of the files up to the current batch, in the order
\* of the files.
C21_BatchesInOrder ==
    [][client = "run" =>
         /\ bi' # bi =>
               /\ bi' = (IF bi = 0 THEN 1 ELSE bi + IndexBatchSize)
               /\ bi' <= Len(index_files)
               /\ Len(tasks') = (IF Len(index_files) - bi' + 1 < IndexBatchSize
                                 THEN Len(index_files) - bi' + 1 ELSE IndexBatchSize)
               /\ \A k \in 1..Len(tasks') : tasks'[k] = "submitted"
               /\ ppc \in {"idle", "done"}
               /\ HandledEntries = ValidUpTo(bi' - 1)
         /\ (tasks' # tasks /\ bi' = bi) =>
               \E k \in 1..Len(tasks) :
                  tasks[k] = "submitted" /\ tasks' = [tasks EXCEPT ![k] = "done"]
         /\ ((handled' # handled \/ db' # db \/ last' # last \/ stats' # stats)
               /\ rpc' # "aborted") =>
               /\ \A k \in 1..Len(tasks) : tasks[k] = "done"
               /\ IsPrefix(ValidUpTo(bi - 1), HandledEntries')
               /\ IsPrefix(HandledEntries', ValidUpTo(bi + Len(tasks) - 1))]_vars

\* C21 witness: the second batch of a normal run is being written, after a first
\* batch of two index files whose entries have all been handled.
C21_Witness ==
    /\ client = "run" /\ rpc = "writing" /\ ~dry_run
    /\ bi = 1 + IndexBatchSize
    /\ ppc = "annotation"
    /\ Len(ValidUpTo(IndexBatchSize)) >= 3
    /\ HandledEntries = ValidUpTo(IndexBatchSize)

\* The store operation the writer performs at each position of the loop body.
WriterOp(pc) ==
    CASE pc = "file" -> "add_file"
      [] pc = "annotation" -> "add_annotation"
      [] pc = "content" -> "add_content"
      [] OTHER -> "none"

\* C22: whatever the order in which the parse workers and the orchestrator
\* step, a step of a parse worker leaves the store, its connection's record of
\* calls and the StatsAnalyzer untouched; the store is touched only by a step of
\* the writer loop, which performs the one operation its position names, while
\* no parse task is running; and the StatsAnalyzer is touched only by the writer
\* loop of a dry run.
C22_OnlyTheWriterWrites ==
    [][client = "run" =>
         /\ (tasks' # tasks /\ bi' = bi) =>
               UNCHANGED <<db, committed, last, firstId, lastContent, stats, handled>>
         /\ ((db' # db \/ committed' # committed \/ last' # last) /\ rpc' # "aborted") =>
               /\ rpc = "writing" /\ ppc \in {"file", "annotation", "content"}
               /\ last'.op = WriterOp(ppc)
               /\ tasks' = tasks
               /\ \A k \in 1..Len(tasks) : tasks[k] = "done"
               /\ stats' = stats
         /\ stats' # stats =>
               /\ rpc = "writing" /\ ppc = "dry" /\ dry_run
               /\ tasks' = tasks
               /\ UNCHANGED <<db, committed, last>>]_vars

\* C22 witness: in the second batch of a normal run, after the store was
\* written for the first, the worker of the last file has finished and the
\* orchestrator has not yet taken its result.
C22_Witness ==
    /\ client = "run" /\ rpc = "parsing" /\ ~dry_run
    /\ bi = 1 + IndexBatchSize
    /\ tasks[Len(tasks)] = "done"
    /\ last.op = "add_content"
    /\ Cardinality(committed.files) = 2

----------------------------------------------------------------------------
(* Claims about process_files                                                 *)

\* The row of the files table with the given id.
RowOf(id) == CHOOSE r \in db.files : r.id = id

\* What process_files is to leave of a row it found: stamped from the file and
\* processed if it was unprocessed and its file is on disk, as it was otherwise.
Swept(row) ==
    IF ~row.processed /\ row.full_path \in disk
    THEN [row EXCEPT !.size = StatSize(row.full_path),
                     !.modified_date = StatMtime(row.full_path),
                     !.processed = TRUE]
    ELSE row

\* C23: process_files completes, and then every row that was unprocessed when it
\* was called and whose file is on disk has size and modified_date stamped from
\* the file and processed = TRUE, every other row (an unprocessed row whose file
\* is missing, a row processed before) is as it was, and this is committed.
C23_SweepStampsAndSkips ==
    <>(/\ pfpc = "done"
       /\ { r.id : r \in db.files } = { r.id : r \in pfStart }
       /\ \A row \in pfStart : RowOf(row.id) = Swept(row)
       /\ committed = db)

\* C24: process_files terminates whatever the store and the disk hold.
C24_SweepTerminates == <>(pfpc = "done")

----------------------------------------------------------------------------
(* Claims about the description mode of parse_file                            *)

\* The item at position p goes to the description if the mode is off at the
\* start of the block that begins at position lo: as IsCollected, the
\* `Description:` line being one of the block itself.
IsCollectedInBlock(p, lo) ==
    LET line == strip(content[p])
    IN /\ content[p] # SEP
       /\ line # <<>>
       /\ ~FileNameMatch(line)
       /\ line # <<"Description:">>
       /\ ~EndsDescription(line)
       /\ \E q \in lo..(p - 1) :
             /\ strip(content[q]) = <<"Description:">>
             /\ \A r \in (q + 1)..(p - 1) : ~EndsDescription(content[r])

RECURSIVE BlockLines(_, _, _)
BlockLines(p, lo, hi) ==
    IF p > hi THEN <<>>
    ELSE (IF IsCollectedInBlock(p, lo) THEN <<strip(content[p])>> ELSE <<>>)
         \o BlockLines(p + 1, lo, hi)

\* C25: the description of every entry is made of the lines of its own block
\* that follow a `Description:` line of that block: a line that comes before the
\* block's own `Description:` line is not in it, whatever the blocks before hold.
C25_DescriptionModeIsLocal ==
    stage = "parsed" =>
        LET spans == EntrySpans
        IN /\ Len(results) = Len(spans)
           /\ \A k \in 1..Len(results) :
                 LET lines == BlockLines(SpanLo(spans[k]), SpanLo(spans[k]), SpanHi(spans[k]))
                 IN results[k].description =
                       IF lines = <<>> THEN NoDescription ELSE JoinSpace(lines)

\* The line begins with `Description:`.
DescriptionLine(raw) ==
    LET line == strip(raw) IN line # <<>> /\ Head(line) = "Description:"

\* The item at position p goes to the description if every line that begins with
\* `Description:` switches the mode on.
IsCollectedByPrefix(p) ==
    LET line == strip(content[p])
    IN /\ content[p] # SEP
       /\ line # <<>>
       /\ ~FileNameMatch(line)
       /\ ~DescriptionLine(line)
       /\ ~EndsDescription(line)
       /\ \E q \in 1..(p - 1) :
             /\ DescriptionLine(content[q])
             /\ \A r \in (q + 1)..(p - 1) : ~EndsDescription(content[r])

RECURSIVE PrefixLines(_, _)
PrefixLines(lo, hi) ==
    IF lo > hi THEN <<>>
    ELSE (IF IsCollectedByPrefix(lo) THEN <<strip(content[lo])>> ELSE <<>>)
         \o PrefixLines(lo + 1, hi)

\* C26: a line that begins with `Description:`, with or without text after the
\* colon, is never part of a description, and it switches description collection
\* on: in a file of one block the description is the join of the unrecognised
\* lines that follow such a line with no tags, systems, hash or author line in
\* between.
C26_DescriptionPrefixSwitches ==
    stage = "parsed" =>
        /\ \A k \in 1..Len(results) : \A i \in 1..Len(results[k].description) :
              results[k].description[i] # "Description:"
        /\ (\A p \in 1..Len(content) : content[p] # SEP) =>
              \A k \in 1..Len(results) :
                 LET lines == PrefixLines(1, Len(content))
                 IN results[k].description =
                       IF lines = <<>> THEN NoDescription ELSE JoinSpace(lines)

----------------------------------------------------------------------------
(* Claims about the metadata of a content row                                 *)

\* C27: when the writer loop has saved an entry, the content row of the entry's
\* file holds metadata that json.loads, applied once, turns into the entry's
\* metadata mapping.
C27_MetadataRoundTrips ==
    [][(/\ Len(handled') = Len(handled) + 1
        /\ handled'[Len(handled')].outcome = "saved")
       => LET entry == handled'[Len(handled')].entry
          IN \E f \in db'.files :
                /\ f.full_path = PathJoinParent(entry.index_path, entry.filename)
                /\ \E c \in db'.content :
                      /\ c.file_id = f.id
                      /\ json_loads(c.metadata) = entry.metadata]_vars

----------------------------------------------------------------------------
(* Claims about the analyzer and the parser on the same index file            *)

\* The filenames process_index_file of the analyzer adds for an index file.
AnalyzerFilenames(text) ==
    index_blocks([indexed_files |-> {}, categories |-> [k \in CoverageCategoryKeys |-> 0]],
                 SplitBlocks(text, <<>>), "unknown").indexed_files

\* The filenames of the entries parse_file returns for an index file.
ParserFilenames(path, text) ==
    LET entries == parse_file(path, TRUE, text).results
    IN { entries[k].filename[1] : k \in 1..Len(entries) }

ParserCategories(path, text) ==
    LET entries == parse_file(path, TRUE, text).results
    IN { entries[k].metadata.category : k \in 1..Len(entries) }

\* C28: whenever the analyzer processes an index file, the filenames it finds in
\* it are the filenames of the entries parse_file returns for the same file, and
\* the category it gives the file is the category of each of these entries.
C28_AnalyzerAgreesWithParser ==
    [][\A path \in CoveragePaths, text \in IndexTexts :
          CovProcessIndexFile(path, text) =>
             /\ AnalyzerFilenames(text) = ParserFilenames(path, text)
             /\ \A c \in ParserCategories(path, text) : c = analyzer_category(path)]_vars

----------------------------------------------------------------------------
(* Claims about process_index_files of the builder                            *)

\* C29: when process_index_files has completed and no store call has failed,
\* every entry parse_file returned for every index file has its file row and an
\* annotation of that file from the entry's index file, and every file row has
\* an annotation.
C29_BuilderStoresEveryEntry ==
    (client = "build" /\ rpc = "done" /\ ~writeRaised) =>
        /\ \A i \in 1..Len(index_files) : \A k \in 1..Len(index_files[i].parsed) :
              LET entry == index_files[i].parsed[k]
              IN \E f \in db.files :
                    /\ f.full_path = RootDirJoin(entry.filename)
                    /\ \E a \in db.annotations :
                          a.file_id = f.id /\ a.source_index = entry.source_index
        /\ \A f \in db.files : \E a \in db.annotations : a.file_id = f.id

====
